---- MODULE Spec2Model ----
(***************************************************************************)
(* Model of the Aeolus engine adapter (zyngine/zynthian_engine_aeolus.py): *)
(* the configuration state machine driven by set_bank, the process         *)
(* supervisor (start / stop / wait_for_ready), the tuning handshake         *)
(* (get_current_config / set_tuning), the MIDI-channel configuration and   *)
(* the inbound OSC callback run by the listener thread.                    *)
(*                                                                         *)
(* One foreground thread executes the engine's methods; pc and stack hold  *)
(* its position.  A method that blocks in wait_for_ready is cut at each    *)
(* poll of the ready flag, the only state shared with the listener thread. *)
(* The external engine process is the queue `pending` of requests it has   *)
(* received and not yet completed.                                         *)
(***************************************************************************)
EXTENDS Integers, Sequences, FiniteSets, TLC

\* ------------------------------------------------------------------------
\* Values
\* ------------------------------------------------------------------------

\* Python's None, for the integer-valued attributes
None == -1

\* An attribute that was never assigned (reading it raises AttributeError)
Undef == -2

\* A key that is absent from a dictionary
Absent == -3

\* ------------------------------------------------------------------------
\* Bounds of the model
\* ------------------------------------------------------------------------

\* Engine processes spawned in one run of the model
MaxSpawns == 2

\* Temperaments (in the order of temperament_names) offered as inputs
MaxTemperamentInputs == 2

\* Snapshots restored through set_extended_config in one run of the model
MaxConfigLoads == 1

\* Direct calls of start, set_tuning and wait_for_ready in one run of the model
MaxApiCalls == 2

\* Calls of preset methods and of set_value in one run of the model
MaxPresetOps == 3

\* Lines of a definition file
MaxLines == 2

\* ------------------------------------------------------------------------
\* Tables of the class
\* ------------------------------------------------------------------------

\* keyboard_config_names: the selectable layouts, in the order of the table
keyboard_config_names == <<15, 13, 11, 9, 7, 5, 3, 1>>

\* temperament_names: the selectable temperaments, in the order of the table
temperament_names == <<5, 4, 1, 2, 3, 6, 7, 8, 9, 10, 0>>

\* instrument: the divisions, in the order the dictionary is filled
instrument == <<"Manual I", "Manual II", "Manual III", "Pedals">>

\* keyboard_order of set_midi_chan: aeolus' native index of processor i
keyboard_order == <<2, 1, 0, 3>>

\* Default timeout of wait_for_ready, in seconds
DefaultTimeout == 10

\* wait_for_ready polls every 0.25 s: polls per second
PollsPerSecond == 4

\* Number of MIDI channels
NumChans == 16

Layouts == {keyboard_config_names[i] : i \in 1..Len(keyboard_config_names)}

Temperaments == {temperament_names[i] : i \in 1..Len(temperament_names)}

TemperamentInputs ==
  {temperament_names[i] :
     i \in 1..(IF MaxTemperamentInputs < Len(temperament_names)
               THEN MaxTemperamentInputs ELSE Len(temperament_names))}

Chans == 0..(NumChans - 1)

\* ------------------------------------------------------------------------
\* The definition file: lines of text, of which get_current_config reads
\* those that start with "/tuning"
\* ------------------------------------------------------------------------

\* float(text): the value, or Undef when float() raises
ParseFloat(text) ==
  CASE text = "440.0" -> 440
    [] text = "438.0" -> 438
    [] text = "5" -> 5
    [] text = "4" -> 4
    [] OTHER -> Undef

\* int(text): the value, or Undef when int() raises (as it does on "440.0")
ParseInt(text) ==
  CASE text = "5" -> 5
    [] text = "4" -> 4
    [] OTHER -> Undef

\* The text aeolus writes for a frequency
FormatFloat(f) ==
  CASE f = 440 -> "440.0"
    [] f = 438 -> "438.0"
    [] OTHER -> "?"

\* The text aeolus writes for a temperament
FormatInt(t) ==
  CASE t = 5 -> "5"
    [] t = 4 -> "4"
    [] OTHER -> "?"

TuningLine(f, t) == [key |-> "/tuning", freq |-> FormatFloat(f), temp |-> FormatInt(t)]

\* get_current_config that leaves an attribute as it is when the field does
\* not parse
RECURSIVE get_current_config_lines_keep(_, _)
get_current_config_lines_keep(lines, cur) ==
  IF lines = <<>> THEN cur
  ELSE LET line == Head(lines)
           f == ParseFloat(line.freq)
           t == ParseInt(line.temp)
           next == IF line.key = "/tuning"
                   THEN <<IF f = Undef THEN cur[1] ELSE f,
                          IF t = Undef THEN cur[2] ELSE t>>
                   ELSE cur
       IN get_current_config_lines_keep(Tail(lines), next)

\* get_current_config, lines 318-328: every line that starts with /tuning
\* assigns both attributes; cur is <<current_tuning_freq, current_temperament>>
RECURSIVE get_current_config_lines(_, _)
get_current_config_lines(lines, cur) ==
  IF lines = <<>> THEN cur
  ELSE LET line == Head(lines)
           f == ParseFloat(line.freq)
           t == ParseInt(line.temp)
           next == IF line.key = "/tuning"
                   THEN <<IF f = Undef THEN None ELSE f,
                          IF t = Undef THEN None ELSE t>>
                   ELSE cur
       IN get_current_config_lines(Tail(lines), next)

get_current_config(file, cur) == get_current_config_lines(file, cur)


\* ------------------------------------------------------------------------
\* Bit operations on non-negative integers
\* ------------------------------------------------------------------------

RECURSIVE Pow2(_)
Pow2(n) == IF n = 0 THEN 1 ELSE 2 * Pow2(n - 1)

\* x & (1 << i) is non-zero
BitSet(x, i) == (x \div Pow2(i)) % 2 = 1

\* x | y
RECURSIVE BitOr(_, _)
BitOr(x, y) ==
  IF x = 0 THEN y
  ELSE IF y = 0 THEN x
  ELSE (IF x % 2 = 1 \/ y % 2 = 1 THEN 1 ELSE 0) + 2 * BitOr(x \div 2, y \div 2)

\* ------------------------------------------------------------------------
\* Collaborators: the chain manager's channel allocator and the base class
\* ------------------------------------------------------------------------

\* The channels claimed by a chain: those of the engine's processors and
\* those of the other chains
ClaimedChans(procs, others) ==
  others \cup {procs[i].midi_chan : i \in 1..Len(procs)}

\* chain_manager.get_next_free_midi_chan(hint): the lowest free channel at
\* or after the hint, else the lowest free channel, else None
get_next_free_midi_chan(hint, claimed) ==
  LET free == Chans \ claimed
      after == {c \in free : c >= hint}
  IN IF free = {} THEN None
     ELSE IF after # {} THEN CHOOSE c \in after : \A d \in after : c <= d
     ELSE CHOOSE c \in free : \A d \in free : c <= d

\* zynthian_engine.add_processor of the base class: appends to processors
base_add_processor(procs, processor) == Append(procs, processor)

\* add_processor, lines 364-372: the division is the one at the position
\* the processor takes in processors; past the last division nothing is added
add_processor(procs, midi_chan) ==
  LET processor_index == Len(procs)
  IN IF processor_index >= Len(instrument) THEN procs
     ELSE base_add_processor(procs,
            [division |-> instrument[processor_index + 1], midi_chan |-> midi_chan])

\* The loop of start without the registration of the new chain: the
\* allocator does not see the channels the loop has handed out
RECURSIVE start_add_processors_unregistered(_, _, _, _)
start_add_processors_unregistered(procs, processor_index, kc, others) ==
  IF processor_index >= Len(instrument) THEN procs
  ELSE IF BitSet(kc, processor_index)
  THEN LET midi_chan == get_next_free_midi_chan(procs[1].midi_chan,
                                                others \cup {procs[1].midi_chan})
       IN IF midi_chan = None THEN procs
          ELSE start_add_processors_unregistered(add_processor(procs, midi_chan),
                                                 processor_index + 1, kc, others)
  ELSE start_add_processors_unregistered(procs, processor_index + 1, kc, others)

\* The loop of start that gives up the processors it added when a channel
\* allocation fails
RECURSIVE start_add_processors_all_or_nothing(_, _, _, _)
start_add_processors_all_or_nothing(procs, processor_index, kc, others) ==
  IF processor_index >= Len(instrument) THEN procs
  ELSE IF BitSet(kc, processor_index)
  THEN LET midi_chan == get_next_free_midi_chan(procs[1].midi_chan,
                                                ClaimedChans(procs, others))
       IN IF midi_chan = None THEN SubSeq(procs, 1, 1)
          ELSE start_add_processors_all_or_nothing(add_processor(procs, midi_chan),
                                                   processor_index + 1, kc, others)
  ELSE start_add_processors_all_or_nothing(procs, processor_index + 1, kc, others)

\* start, lines 261-276: the loop that adds the extra processors, from
\* processor_index on; stops at the first failed channel allocation
RECURSIVE start_add_processors(_, _, _, _)
start_add_processors(procs, processor_index, kc, others) ==
  IF processor_index >= Len(instrument) THEN procs
  ELSE IF BitSet(kc, processor_index)
  THEN LET midi_chan == get_next_free_midi_chan(procs[1].midi_chan,
                                                ClaimedChans(procs, others))
       IN IF midi_chan = None THEN procs
          ELSE start_add_processors(add_processor(procs, midi_chan),
                                    processor_index + 1, kc, others)
  ELSE start_add_processors(procs, processor_index + 1, kc, others)

\* The packed value of one channel with the position of the processor taken
\* as the keyboard, without the lookup in keyboard_order
midi_config_value_by_position(procs, chan) ==
  LET on == {i \in 1..Len(procs) : procs[i].midi_chan = chan}
  IN IF on = {} THEN 0
     ELSE LET i == CHOOSE j \in on : \A k \in on : j <= k
              keyboard == i - 1
              val == BitOr(20480, keyboard)
          IN IF keyboard < 2 THEN BitOr(val, 8192 + keyboard * 16) ELSE val

\* set_midi_chan, lines 389-399: the packed value of one channel
midi_config_value(procs, chan) ==
  LET on == {i \in 1..Len(procs) : procs[i].midi_chan = chan}
  IN IF on = {} THEN 0
     ELSE LET i == CHOOSE j \in on : \A k \in on : j <= k
              keyboard == keyboard_order[i]
              val == BitOr(20480, keyboard)
          IN IF keyboard < 2 THEN BitOr(val, 8192 + keyboard * 16) ELSE val

\* set_midi_chan, lines 387-399: the 16 packed values, channel 0 first
midi_config(procs) == [c \in 1..NumChans |-> midi_config_value(procs, c - 1)]

\* set_midi_chan, line 402: the arguments of /store_midi_config, the slot
\* of the MIDI configuration first
store_midi_config_args(procs) == <<0>> \o midi_config(procs)

\* ------------------------------------------------------------------------
\* Bank lists
\* ------------------------------------------------------------------------

BankInfo(kind, index) == [kind |-> kind, index |-> index]

\* get_bank_list, lines 417-432: the entries offered in the current step
get_bank_list(kc, temp) ==
  IF kc = None
  THEN [i \in 1..Len(keyboard_config_names) |-> BankInfo("layout", keyboard_config_names[i])]
  ELSE IF temp = None
  THEN [i \in 1..Len(temperament_names) |-> BankInfo("temperament", temperament_names[i])]
  ELSE <<BankInfo("General", 0)>>

\* The entries of a bank list that the model offers as inputs
BankInputs(list) ==
  {list[i] : i \in {j \in 1..Len(list) :
       list[j].kind = "temperament" => list[j].index \in TemperamentInputs}}

\* Entries a caller passes to set_bank whatever the current step: the first
\* layout, the temperaments and the local bank of a division (index None)
ApiBankInputs ==
  {BankInfo("layout", keyboard_config_names[1])}
  \cup {BankInfo("temperament", t) : t \in TemperamentInputs}
  \cup {BankInfo("Local", None)}


\* ------------------------------------------------------------------------
\* State
\* ------------------------------------------------------------------------

VARIABLES
  keyboard_config,      \* self.keyboard_config: the layout bitmask, or None
  temperament,          \* self.temperament, or None
  restart_flag,         \* self.restart_flag
  proc,                 \* self.proc: the handle of a spawned process, or None
  ready,                \* self.ready
  processors,           \* self.processors: <<[division, midi_chan], ...>>
  current_tuning_freq,  \* self.current_tuning_freq
  current_temperament,  \* self.current_temperament
  osc_server,           \* self.osc_server is not None
  busy,                 \* state_manager: start_busy("Aeolus") without end_busy
  fine_tuning_freq,     \* state_manager.fine_tuning_freq
  other_chans,          \* chain_manager: channels claimed by the other chains
  definition,           \* the lines of {stops_fpath}/Aeolus/definition
  alive,                \* the spawned processes that still run
  pending,              \* requests the engine process has not completed yet
  spawned,              \* number of processes spawned so far
  loads,                \* number of set_extended_config calls so far
  api_calls,            \* number of direct calls of start, set_tuning, wait_for_ready
  pc,                   \* position of the foreground thread
  stack,                \* where the foreground thread returns to
  timeout,              \* wait_for_ready: time left, in polls, or None (0 outside)
  call,                 \* the call the collaborator made last: [method, bank_info, again]
  result,               \* what the last call returned or raised
  trace,                \* what the current call sent and observed, in order
  launched,             \* <<keyboard_config, temperament>> at the last spawn
  zctrl,                \* the control last passed to send_controller_value
  midi_control,         \* zynmidi.set_midi_control calls of that call: <<[chan, cc, val], ...>>
  presets,              \* self.presets: <<[name, state], ...>> in the order of insertion
  user_presets_file,    \* the file at user_presets_fpath
  default_presets_file, \* the file at default_presets_fpath
  controllers,          \* controllers_dict of the processor of a division: symbol -> value
  selection,            \* preset and preload attributes of the processor of a division
  preset_args,          \* the arguments of the last call of a preset method
  written,              \* the last call wrote the user preset file
  preset_ops            \* number of calls of preset methods and of set_value so far

engine_vars ==
  <<keyboard_config, temperament, restart_flag, proc, ready, processors,
    current_tuning_freq, current_temperament, osc_server>>

vars ==
  <<keyboard_config, temperament, restart_flag, proc, ready, processors,
    current_tuning_freq, current_temperament, osc_server, busy,
    fine_tuning_freq, other_chans, definition, alive, pending, spawned, loads,
    api_calls, pc, stack, timeout, call, result, trace, launched, zctrl,
    midi_control, presets, user_presets_file, default_presets_file,
    controllers, selection, preset_args, written, preset_ops>>

\* What send_controller_value reads and writes
ctrl_vars == <<zctrl, midi_control>>

\* What the preset methods read and write
preset_vars ==
  <<presets, user_presets_file, default_presets_file, controllers, selection,
    preset_args, written, preset_ops>>

\* No bank entry
NoBank == BankInfo("", None)

\* The record of a call of method by the collaborator
Call(method, bank_info) ==
  [method |-> method, bank_info |-> bank_info, again |-> FALSE]

\* The record of a direct call of method; again tells that the call before
\* it was a call of the same method
DirectCall(method) ==
  [method |-> method, bank_info |-> NoBank, again |-> call.method = method]

\* The positions of a trace that hold the event ev
At(tr, ev) == {i \in 1..Len(tr) : tr[i].ev = ev}

\* An entry of trace
Ev(name) == [ev |-> name, freq |-> None, temp |-> None, cfg |-> <<>>]

EvRetune(f, t) == [ev |-> "/retune", freq |-> f, temp |-> t, cfg |-> <<>>]

EvDefinition(file) == [ev |-> "definition", freq |-> None, temp |-> None, cfg |-> file]

EvMidiConfig(cfg) == [ev |-> "/store_midi_config", freq |-> None, temp |-> None, cfg |-> cfg]

\* A request the engine process has received
Req(name, f, t) == [req |-> name, freq |-> f, temp |-> t]

\* osc_server.send reaches the engine only when a process runs
Deliver(queue, req) == IF alive = {} THEN queue ELSE Append(queue, req)

\* No control
NoCtrl == [symbol |-> "", midi_chan |-> None, midi_cc |-> None, value |-> None,
           graph_path |-> <<>>]

\* The first processor, added by the chain manager when it creates the engine
FirstProcessor(chan) == [division |-> instrument[1], midi_chan |-> chan]

\* __init__, lines 220-235, followed by the chain manager's add_processor
\* of the processor the engine was created for
InitEngine(file, first_chan, others, freq) ==
  /\ keyboard_config = None
  /\ temperament = None
  /\ restart_flag = FALSE
  /\ proc = None
  /\ ready = TRUE
  /\ processors = add_processor(<<>>, first_chan)
  /\ definition = file
  /\ current_tuning_freq = get_current_config(file, <<Undef, Undef>>)[1]
  /\ current_temperament = get_current_config(file, <<Undef, Undef>>)[2]
  /\ osc_server = FALSE
  /\ busy = FALSE
  /\ fine_tuning_freq = freq
  /\ other_chans = others
  /\ alive = {}
  /\ pending = <<>>
  /\ spawned = 0
  /\ loads = 0
  /\ api_calls = 0
  /\ pc = "idle"
  /\ stack = <<>>
  /\ timeout = 0
  /\ call = [method |-> "__init__", bank_info |-> NoBank, again |-> FALSE]
  /\ result = "None"
  /\ trace = <<>>
  /\ launched = <<None, None>>
  /\ zctrl = NoCtrl
  /\ midi_control = <<>>

\* The definition files the engine is constructed with
DefinitionFiles == {<<TuningLine(440, 5)>>, <<TuningLine(438, 4)>>}

\* ------------------------------------------------------------------------
\* Returning and raising
\* ------------------------------------------------------------------------

\* The callee returns value: to the label on top of the stack, or to the
\* collaborator when the stack is empty
Return(value) ==
  IF stack = <<>>
  THEN pc' = "idle" /\ stack' = <<>> /\ result' = value
  ELSE pc' = Head(stack) /\ stack' = Tail(stack) /\ UNCHANGED result

\* An exception that no caller catches unwinds to the collaborator
Raise(exception) == pc' = "idle" /\ stack' = <<>> /\ result' = exception


\* ------------------------------------------------------------------------
\* set_bank
\* ------------------------------------------------------------------------

\* set_bank that does not start again after a start that failed
set_bank_tail_no_retry(tr) ==
  IF proc = None /\ ~busy
  THEN pc' = "start" /\ stack' = <<>> /\ result' = "pending" /\ trace' = tr
  ELSE /\ pc' = "idle" /\ stack' = <<>> /\ result' = "True"
       /\ trace' = Append(tr, Ev("set_midi_bank_lsb"))

\* set_bank, lines 455-461: start the engine when no process is held,
\* otherwise select the bank; tr is what the call has sent so far
set_bank_tail(tr) ==
  IF proc = None
  THEN pc' = "start" /\ stack' = <<>> /\ result' = "pending" /\ trace' = tr
  ELSE /\ pc' = "idle" /\ stack' = <<>> /\ result' = "True"
       /\ trace' = Append(tr, Ev("set_midi_bank_lsb"))

\* set_bank, lines 447-454: record the layout, then the temperament, then
\* stop the engine first when a restart is pending
set_bank(bank_info) ==
  /\ UNCHANGED ctrl_vars
  /\ UNCHANGED preset_vars
  /\ UNCHANGED launched
  /\ UNCHANGED api_calls
  /\ pc = "idle"
  /\ call' = Call("set_bank", bank_info)
  /\ IF keyboard_config = None
     THEN /\ keyboard_config' = bank_info.index
          /\ pc' = "idle" /\ stack' = <<>> /\ result' = "None" /\ trace' = <<>>
          /\ UNCHANGED temperament
     ELSE /\ temperament' = IF temperament = None THEN bank_info.index ELSE temperament
          /\ UNCHANGED keyboard_config
          /\ IF restart_flag
             THEN /\ pc' = "stop" /\ stack' = <<"set_bank_tail">>
                  /\ result' = "pending" /\ trace' = <<>>
             ELSE set_bank_tail(<<>>)
  /\ UNCHANGED <<restart_flag, proc, ready, processors, current_tuning_freq,
                 current_temperament, osc_server, busy, fine_tuning_freq,
                 other_chans, definition, alive, pending, spawned, loads, timeout>>

\* set_bank after its call of stop has returned
set_bank_resume ==
  /\ UNCHANGED ctrl_vars
  /\ UNCHANGED preset_vars
  /\ UNCHANGED launched
  /\ UNCHANGED api_calls
  /\ pc = "set_bank_tail"
  /\ set_bank_tail(trace)
  /\ UNCHANGED <<keyboard_config, temperament, restart_flag, proc, ready,
                 processors, current_tuning_freq, current_temperament,
                 osc_server, busy, fine_tuning_freq, other_chans, definition,
                 alive, pending, spawned, loads, timeout, call>>

\* ------------------------------------------------------------------------
\* stop
\* ------------------------------------------------------------------------

\* What the child does with /exit and what pexpect reports
StopOutcomes == {"exited", "terminated", "isalive_raises", "terminate_raises"}

\* stop without the except clause: an error in the try block leaves stop
stop_end_propagating ==
  IF At(trace', "error") # {}
  THEN Raise("ExceptionPexpect") /\ UNCHANGED <<osc_server, restart_flag>>
  ELSE osc_server' = FALSE /\ restart_flag' = FALSE /\ Return("None")

\* stop, lines 308-311: whatever happened in the try block, end the OSC
\* server, clear restart_flag and return
stop_end ==
  /\ osc_server' = FALSE
  /\ restart_flag' = FALSE
  /\ Return("None")

\* stop, lines 299-311, called by the collaborator (pc = "idle") or by
\* set_bank (pc = "stop")
stop(outcome) ==
  /\ UNCHANGED ctrl_vars
  /\ UNCHANGED preset_vars
  /\ UNCHANGED launched
  /\ UNCHANGED api_calls
  /\ pc \in {"idle", "stop"}
  /\ call' = IF pc = "idle" THEN Call("stop", NoBank) ELSE call
  /\ LET tr == IF pc = "idle" THEN <<>> ELSE trace
     IN IF proc = None
        THEN trace' = tr /\ UNCHANGED <<proc, alive, pending>>
        ELSE IF ~osc_server
        THEN \* osc_server is None: send raises, the handler logs it
             trace' = Append(tr, Ev("error")) /\ UNCHANGED <<proc, alive, pending>>
        ELSE CASE outcome = "exited" ->
                    /\ trace' = tr \o <<Ev("/exit")>>
                    /\ proc' = None /\ alive' = alive \ {proc} /\ pending' = <<>>
               [] outcome = "terminated" ->
                    /\ trace' = tr \o <<Ev("/exit"), Ev("terminate")>>
                    /\ proc' = None /\ alive' = alive \ {proc} /\ pending' = <<>>
               [] outcome = "isalive_raises" ->
                    /\ trace' = tr \o <<Ev("/exit"), Ev("error")>>
                    /\ alive' = alive \ {proc} /\ pending' = <<>>
                    /\ UNCHANGED proc
               [] outcome = "terminate_raises" ->
                    /\ trace' = tr \o <<Ev("/exit"), Ev("terminate"), Ev("error")>>
                    /\ UNCHANGED <<proc, alive, pending>>
  /\ stop_end
  /\ UNCHANGED <<keyboard_config, temperament, ready, processors,
                 current_tuning_freq, current_temperament, busy,
                 fine_tuning_freq, other_chans, definition, spawned, loads,
                 timeout>>

\* ------------------------------------------------------------------------
\* start
\* ------------------------------------------------------------------------

\* start, lines 257-292: add the missing processors, open the OSC server,
\* read the definition file, clear ready, spawn the process and wait
start(spawn_ok) ==
  /\ UNCHANGED ctrl_vars
  /\ UNCHANGED preset_vars
  /\ UNCHANGED api_calls
  /\ pc = "start"
  /\ busy' = TRUE
  /\ IF Len(processors) <= 1 /\ keyboard_config = None
     THEN \* None & int
          /\ Raise("TypeError")
          /\ UNCHANGED <<processors, osc_server, current_tuning_freq,
                         current_temperament, ready, proc, spawned, alive,
                         pending, trace, timeout, launched>>
     ELSE LET cur == get_current_config(definition,
                       <<current_tuning_freq, current_temperament>>)
          IN /\ processors' =
                  IF Len(processors) <= 1
                  THEN start_add_processors(processors, Len(processors),
                                            keyboard_config, other_chans)
                  ELSE processors
             /\ osc_server' = TRUE
             /\ current_tuning_freq' = cur[1]
             /\ current_temperament' = cur[2]
             /\ ready' = FALSE
             /\ IF spawn_ok /\ spawned < MaxSpawns
                THEN /\ proc' = spawned + 1
                     /\ spawned' = spawned + 1
                     /\ alive' = alive \cup {spawned + 1}
                     /\ launched' = <<keyboard_config, temperament>>
                     /\ pending' = Append(pending, Req("launch", None, None))
                     /\ trace' = trace \o <<EvDefinition(definition), Ev("spawn")>>
                     /\ pc' = "wait"
                     /\ timeout' = DefaultTimeout * PollsPerSecond
                     /\ stack' = <<"set_tuning", "start_end">> \o stack
                     /\ UNCHANGED result
                ELSE \* pexpect.spawn raises
                     /\ Raise("ExceptionPexpect")
                     /\ trace' = Append(trace, EvDefinition(definition))
                     /\ UNCHANGED <<proc, spawned, alive, pending, timeout,
                                    launched>>
  /\ UNCHANGED <<keyboard_config, temperament, restart_flag, fine_tuning_freq,
                 other_chans, definition, loads, call>>

\* start that configures the MIDI channels twice
start_end_config_twice ==
  /\ UNCHANGED ctrl_vars
  /\ UNCHANGED preset_vars
  /\ UNCHANGED launched
  /\ UNCHANGED api_calls
  /\ pc = "start_end"
  /\ IF osc_server
     THEN trace' = trace \o <<EvMidiConfig(store_midi_config_args(processors)),
                              EvMidiConfig(store_midi_config_args(processors))>>
     ELSE UNCHANGED trace
  /\ busy' = FALSE
  /\ Return("None")
  /\ UNCHANGED <<keyboard_config, temperament, restart_flag, proc, ready,
                 processors, current_tuning_freq, current_temperament,
                 osc_server, fine_tuning_freq, other_chans, definition, alive,
                 pending, spawned, loads, timeout, call>>

\* start, lines 294-297: configure the MIDI channels and leave the busy state
start_end ==
  /\ UNCHANGED ctrl_vars
  /\ UNCHANGED preset_vars
  /\ UNCHANGED launched
  /\ UNCHANGED api_calls
  /\ pc = "start_end"
  /\ IF osc_server
     THEN trace' = Append(trace, EvMidiConfig(store_midi_config_args(processors)))
     ELSE UNCHANGED trace
  /\ busy' = FALSE
  /\ Return("None")
  /\ UNCHANGED <<keyboard_config, temperament, restart_flag, proc, ready,
                 processors, current_tuning_freq, current_temperament,
                 osc_server, fine_tuning_freq, other_chans, definition, alive,
                 pending, spawned, loads, timeout, call>>


\* ------------------------------------------------------------------------
\* wait_for_ready
\* ------------------------------------------------------------------------

\* wait_for_ready, lines 246-253: one evaluation of a loop condition and of
\* the loop body it guards
wait_for_ready_poll_no_decrement ==
  UNCHANGED <<timeout, pc, stack, result, trace>>

\* wait_for_ready, lines 251-253: sleep a quarter of a second and count it
wait_for_ready_poll ==
  /\ timeout' = timeout - 1
  /\ UNCHANGED <<pc, stack, result, trace>>

wait_for_ready ==
  /\ UNCHANGED ctrl_vars
  /\ UNCHANGED preset_vars
  /\ UNCHANGED launched
  /\ UNCHANGED api_calls
  /\ pc = "wait"
  /\ IF timeout = None
     THEN IF ~ready
          THEN \* sleep(0.25) in the first loop
               UNCHANGED <<pc, stack, result, timeout, trace>>
          ELSE \* the first loop ends; None > 0 in the second
               /\ Raise("TypeError")
               /\ trace' = Append(trace, Ev("wait:ready"))
               /\ timeout' = 0
     ELSE IF timeout > 0
          THEN IF ready
               THEN /\ Return("None")
                    /\ trace' = Append(trace, Ev("wait:ready"))
                    /\ timeout' = 0
               ELSE wait_for_ready_poll
          ELSE /\ Return("None")
               /\ trace' = Append(trace, Ev("wait:timeout"))
               /\ timeout' = 0
  /\ UNCHANGED <<keyboard_config, temperament, restart_flag, proc, ready,
                 processors, current_tuning_freq, current_temperament,
                 osc_server, busy, fine_tuning_freq, other_chans, definition,
                 alive, pending, spawned, loads, call>>

\* ------------------------------------------------------------------------
\* set_tuning
\* ------------------------------------------------------------------------

\* set_tuning that compares the frequency alone
tuning_unchanged_freq_only == current_tuning_freq = fine_tuning_freq

\* set_tuning, line 337: the tuning on record is the requested one
tuning_unchanged ==
  current_tuning_freq = fine_tuning_freq /\ current_temperament = temperament

\* set_tuning that sends /save right after /retune, without the wait
set_tuning_retune_no_wait ==
  /\ current_tuning_freq' = fine_tuning_freq
  /\ current_temperament' = temperament
  /\ ready' = FALSE
  /\ IF osc_server
     THEN /\ trace' = Append(trace, EvRetune(fine_tuning_freq, temperament))
          /\ pending' = Deliver(pending, Req("/retune", fine_tuning_freq, temperament))
          /\ pc' = "set_tuning_save"
          /\ UNCHANGED <<timeout, stack, result>>
     ELSE /\ Raise("AttributeError")
          /\ UNCHANGED <<trace, pending, timeout>>

\* set_tuning that does not record the tuning it requests
set_tuning_retune_no_record ==
  /\ ready' = FALSE
  /\ UNCHANGED <<current_tuning_freq, current_temperament>>
  /\ IF osc_server
     THEN /\ trace' = Append(trace, EvRetune(fine_tuning_freq, temperament))
          /\ pending' = Deliver(pending, Req("/retune", fine_tuning_freq, temperament))
          /\ pc' = "wait"
          /\ timeout' = DefaultTimeout * PollsPerSecond
          /\ stack' = <<"set_tuning_save">> \o stack
          /\ UNCHANGED result
     ELSE /\ Raise("AttributeError")
          /\ UNCHANGED <<trace, pending, timeout>>

\* set_tuning, lines 340-344: record the requested tuning, clear ready, send
\* /retune and wait for the engine
set_tuning_retune ==
  /\ current_tuning_freq' = fine_tuning_freq
  /\ current_temperament' = temperament
  /\ ready' = FALSE
  /\ IF osc_server
     THEN /\ trace' = Append(trace, EvRetune(fine_tuning_freq, temperament))
          /\ pending' = Deliver(pending, Req("/retune", fine_tuning_freq, temperament))
          /\ pc' = "wait"
          /\ timeout' = DefaultTimeout * PollsPerSecond
          /\ stack' = <<"set_tuning_save">> \o stack
          /\ UNCHANGED result
     ELSE \* osc_server is None
          /\ Raise("AttributeError")
          /\ UNCHANGED <<trace, pending, timeout>>

\* set_tuning, lines 337-344: nothing to do when the tuning on record is the
\* requested one, else retune
set_tuning ==
  /\ UNCHANGED ctrl_vars
  /\ UNCHANGED preset_vars
  /\ UNCHANGED launched
  /\ pc = "set_tuning"
  /\ UNCHANGED api_calls
  /\ IF current_tuning_freq = Undef \/ current_temperament = Undef
     THEN \* the attributes were never assigned
          /\ Raise("AttributeError")
          /\ UNCHANGED <<current_tuning_freq, current_temperament, ready,
                         trace, pending, timeout>>
     ELSE IF tuning_unchanged
     THEN /\ Return("False")
          /\ UNCHANGED <<current_tuning_freq, current_temperament, ready,
                         trace, pending, timeout>>
     ELSE set_tuning_retune
  /\ UNCHANGED <<keyboard_config, temperament, restart_flag, proc, processors,
                 osc_server, busy, fine_tuning_freq, other_chans, definition,
                 alive, spawned, loads, call>>

\* set_tuning, lines 345-346: send /save and report the change
set_tuning_save ==
  /\ UNCHANGED ctrl_vars
  /\ UNCHANGED preset_vars
  /\ UNCHANGED launched
  /\ UNCHANGED api_calls
  /\ pc = "set_tuning_save"
  /\ IF osc_server
     THEN /\ trace' = Append(trace, Ev("/save"))
          /\ pending' = Deliver(pending,
                          Req("/save", current_tuning_freq, current_temperament))
          /\ Return("True")
     ELSE /\ Raise("AttributeError")
          /\ UNCHANGED <<trace, pending>>
  /\ UNCHANGED <<keyboard_config, temperament, restart_flag, proc, ready,
                 processors, current_tuning_freq, current_temperament,
                 osc_server, busy, fine_tuning_freq, other_chans, definition,
                 alive, spawned, loads, timeout, call>>

\* ------------------------------------------------------------------------
\* The listener thread and the engine process
\* ------------------------------------------------------------------------

InboundPaths == {"/ready", "/other"}

\* cb_osc_all that takes every inbound message for /ready
cb_osc_all_ready_any_path(path) ==
  IF ~osc_server THEN ready ELSE TRUE

\* cb_osc_all, lines 657-662: the value of ready after a message on path
cb_osc_all_ready(path) ==
  IF ~osc_server THEN ready
  ELSE IF path = "/ready" THEN TRUE ELSE ready

\* The listener thread dispatches one inbound message.  The engine sends
\* /ready when it has completed the launch or a /retune, the oldest of its
\* requests; other traffic arrives at any time
cb_osc_all(path) ==
  /\ UNCHANGED ctrl_vars
  /\ UNCHANGED preset_vars
  /\ UNCHANGED launched
  /\ UNCHANGED api_calls
  /\ path = "/ready" =>
       pending # <<>> /\ Head(pending).req \in {"launch", "/retune"}
  /\ pending' = IF path = "/ready" THEN Tail(pending) ELSE pending
  /\ ready' = cb_osc_all_ready(path)
  /\ UNCHANGED <<keyboard_config, temperament, restart_flag, proc, processors,
                 current_tuning_freq, current_temperament, osc_server, busy,
                 fine_tuning_freq, other_chans, definition, alive, spawned,
                 loads, pc, stack, timeout, call, result, trace>>

\* The engine process completes a /save: it writes the tuning of the last
\* /retune to its definition file
engine_save ==
  /\ UNCHANGED ctrl_vars
  /\ UNCHANGED preset_vars
  /\ UNCHANGED launched
  /\ UNCHANGED api_calls
  /\ pending # <<>> /\ Head(pending).req = "/save"
  /\ definition' = <<TuningLine(Head(pending).freq, Head(pending).temp)>>
  /\ pending' = Tail(pending)
  /\ UNCHANGED <<keyboard_config, temperament, restart_flag, proc, ready,
                 processors, current_tuning_freq, current_temperament,
                 osc_server, busy, fine_tuning_freq, other_chans, alive,
                 spawned, loads, pc, stack, timeout, call, result, trace>>

\* ------------------------------------------------------------------------
\* set_extended_config
\* ------------------------------------------------------------------------

\* The snapshots the model restores: current and legacy ones, and the one
\* get_extended_config returns before the engine is configured
ExtendedConfigs ==
  {[temperament |-> t, tuning_temp |-> Absent, keyboard |-> k, divisions |-> <<>>] :
     t \in TemperamentInputs, k \in {15, 3}}
  \cup {[temperament |-> Absent, tuning_temp |-> 4, keyboard |-> Absent,
         divisions |-> <<>>],
        [temperament |-> None, tuning_temp |-> Absent, keyboard |-> None,
         divisions |-> <<instrument[1]>>]}

\* set_extended_config, lines 619-642
set_extended_config(engine_state) ==
  /\ UNCHANGED ctrl_vars
  /\ UNCHANGED preset_vars
  /\ UNCHANGED launched
  /\ UNCHANGED api_calls
  /\ pc = "idle"
  /\ loads < MaxConfigLoads
  /\ loads' = loads + 1
  /\ call' = Call("set_extended_config", NoBank)
  /\ result' = "None"
  /\ trace' = <<>>
  /\ temperament' =
       IF engine_state.temperament # Absent THEN engine_state.temperament
       ELSE IF engine_state.tuning_temp # Absent THEN engine_state.tuning_temp
       ELSE temperament
  /\ LET kc == IF engine_state.keyboard # Absent THEN engine_state.keyboard ELSE 15
     IN /\ keyboard_config' = kc
        /\ restart_flag' =
             (restart_flag
              \/ (engine_state.keyboard = Absent /\ keyboard_config # 15)
              \/ keyboard_config # kc)
  /\ processors' =
       [i \in 1..Len(processors) |->
          [processors[i] EXCEPT !.division =
             IF i <= Len(engine_state.divisions)
             THEN engine_state.divisions[i] ELSE instrument[i]]]
  /\ UNCHANGED <<proc, ready, current_tuning_freq, current_temperament,
                 osc_server, busy, fine_tuning_freq, other_chans, definition,
                 alive, pending, spawned, pc, stack, timeout>>

\* ------------------------------------------------------------------------
\* Calls by a collaborator that uses the methods directly
\* ------------------------------------------------------------------------

\* start()
call_start ==
  /\ UNCHANGED ctrl_vars
  /\ UNCHANGED preset_vars
  /\ UNCHANGED launched
  /\ api_calls < MaxApiCalls
  /\ api_calls' = api_calls + 1
  /\ pc = "idle"
  /\ pc' = "start" /\ stack' = <<>> /\ result' = "pending" /\ trace' = <<>>
  /\ call' = DirectCall("start")
  /\ UNCHANGED <<engine_vars, busy, fine_tuning_freq, other_chans, definition,
                 alive, pending, spawned, loads, timeout>>

\* set_tuning()
call_set_tuning ==
  /\ UNCHANGED ctrl_vars
  /\ UNCHANGED preset_vars
  /\ UNCHANGED launched
  /\ api_calls < MaxApiCalls
  /\ api_calls' = api_calls + 1
  /\ pc = "idle"
  /\ pc' = "set_tuning" /\ stack' = <<>> /\ result' = "pending" /\ trace' = <<>>
  /\ call' = DirectCall("set_tuning")
  /\ UNCHANGED <<engine_vars, busy, fine_tuning_freq, other_chans, definition,
                 alive, pending, spawned, loads, timeout>>

\* wait_for_ready(timeout=None)
call_wait_for_ready ==
  /\ UNCHANGED ctrl_vars
  /\ UNCHANGED preset_vars
  /\ UNCHANGED launched
  /\ api_calls < MaxApiCalls
  /\ api_calls' = api_calls + 1
  /\ pc = "idle"
  /\ pc' = "wait" /\ stack' = <<>> /\ result' = "pending" /\ trace' = <<>>
  /\ timeout' = None
  /\ call' = DirectCall("wait_for_ready")
  /\ UNCHANGED <<engine_vars, busy, fine_tuning_freq, other_chans, definition,
                 alive, pending, spawned, loads>>

\* ------------------------------------------------------------------------
\* Controllers
\* ------------------------------------------------------------------------

\* An entry of a "ctrls" table without graph path (in the symbols, o with
\* umlaut is written oe)
Ctrl(symbol, midi_cc) == [symbol |-> symbol, midi_cc |-> midi_cc, graph_path |-> <<>>]

\* An entry of a "ctrls" table with the graph path [group, button]
Stop(symbol, midi_cc, group, button) ==
  [symbol |-> symbol, midi_cc |-> midi_cc, graph_path |-> <<group, button>>]

\* swell_ctrls, lines 90-94
swell_ctrls == <<Ctrl("Swell", 7), Ctrl("Trem Freq", 12), Ctrl("Trem Amp", 13)>>

\* stop_cc_num, line 214
stop_cc_num == 98

\* instrument["Manual I"]["ctrls"], lines 98-116
ctrls_manual_1 ==
  <<Stop("Principal 8", 14, 2, 0),
    Stop("Principal 4", 15, 2, 1),
    Stop("Octave 2", 16, 2, 2),
    Stop("Octave 1", 17, 2, 3),
    Stop("Quint 5 1/3", 18, 2, 4),
    Stop("Quint 2 2/3", 19, 2, 5),
    Stop("Tibia 8", 20, 2, 6),
    Stop("Celesta 8", 21, 2, 7),
    Stop("Floete 8", 22, 2, 8),
    Stop("Floete 4", 23, 2, 9),
    Stop("Floete 2", 24, 2, 10),
    Stop("Cymbel VI", 25, 2, 11),
    Stop("Mixtur", 26, 2, 12),
    Stop("Trumpet", 27, 2, 13),
    Stop("I+II", 28, 2, 14),
    Stop("I+III", 29, 2, 15),
    Ctrl("Sustain", 64)>>

\* Manual II with the table of Manual I, whose stops are in group 2
ctrls_manual_2_as_manual_1 == ctrls_manual_1

\* instrument["Manual II"]["ctrls"], lines 126-141
ctrls_manual_2 ==
  <<Stop("Rohrfloete 8", 30, 1, 0),
    Stop("Harmonic Flute 4", 31, 1, 1),
    Stop("Flauto Dolce 4", 32, 1, 2),
    Stop("Nasard 2 2/3", 33, 1, 3),
    Stop("Ottavina 2", 34, 1, 4),
    Stop("Tertia 1 3/5", 35, 1, 5),
    Stop("Sesqui-altera", 36, 1, 6),
    Stop("Septime", 37, 1, 7),
    Stop("None", 38, 1, 8),
    Stop("Krumhorn", 39, 1, 9),
    Stop("Melodia", 40, 1, 10),
    Stop("Tremulant", 41, 1, 11),
    Stop("II+III", 42, 1, 12),
    Ctrl("Sustain", 64)>> \o swell_ctrls

\* instrument["Manual III"]["ctrls"], lines 150-164
ctrls_manual_3 ==
  <<Stop("Principal 8", 43, 0, 0),
    Stop("Gemshorn 8", 44, 0, 1),
    Stop("Quinta-dena 8", 45, 0, 2),
    Stop("Suabile 8", 46, 0, 3),
    Stop("Rohrfloete 4", 47, 0, 4),
    Stop("Dulzfloete 4", 48, 0, 5),
    Stop("Quintfloete 2 2/3", 49, 0, 6),
    Stop("Super-octave 2", 50, 0, 7),
    Stop("Sifflet 1", 51, 0, 8),
    Stop("Cymbel VI", 52, 0, 9),
    Stop("Oboe", 53, 0, 10),
    Stop("Tremulant", 54, 0, 11),
    Ctrl("Sustain", 64)>> \o swell_ctrls

\* instrument["Pedals"]["ctrls"], lines 173-191
ctrls_pedals ==
  <<Stop("Subbass 16", 55, 3, 0),
    Stop("Principal 16", 56, 3, 1),
    Stop("Principal 8", 57, 3, 2),
    Stop("Principal 4", 58, 3, 3),
    Stop("Octave 2", 59, 3, 4),
    Stop("Octave 1", 60, 3, 5),
    Stop("Quint 5 1/3", 61, 3, 6),
    Stop("Quint 2 2/3", 62, 3, 7),
    Stop("Mixtur", 63, 3, 8),
    Stop("Fagott 16", 64, 3, 9),
    Stop("Trombone 16", 65, 3, 10),
    Stop("Bombarde 32", 66, 3, 11),
    Stop("Trumpet", 67, 3, 12),
    Stop("P+I", 68, 3, 13),
    Stop("P+II", 69, 3, 14),
    Stop("P+III", 70, 3, 15),
    Ctrl("Sustain", 64)>>

\* instrument[division]["ctrls"]
ctrls(division) ==
  CASE division = "Manual I" -> ctrls_manual_1
    [] division = "Manual II" -> ctrls_manual_2
    [] division = "Manual III" -> ctrls_manual_3
    [] division = "Pedals" -> ctrls_pedals

\* The character "-" in a string of binary digits
MinusSign == 45

\* int() raised ValueError
ValueErr == -4

\* The binary digits of n >= 0, most significant first
RECURSIVE ToBin(_)
ToBin(n) == IF n < 2 THEN <<n>> ELSE Append(ToBin(n \div 2), n % 2)

\* chars padded with zeros on the left to at least width characters
ZeroPad(chars, width) ==
  IF Len(chars) >= width THEN chars
  ELSE [i \in 1..(width - Len(chars)) |-> 0] \o chars

\* "{0:0wb}".format(n): the binary digits, at least width characters; for
\* n < 0 the sign comes first and counts in the width ("-01" for -1)
FormatBin(n, width) ==
  IF n >= 0 THEN ZeroPad(ToBin(n), width)
  ELSE <<MinusSign>> \o ZeroPad(ToBin(0 - n), width - 1)

\* The number that binary digits stand for
RECURSIVE ParseBits(_)
ParseBits(digits) ==
  IF digits = <<>> THEN 0
  ELSE 2 * ParseBits(SubSeq(digits, 1, Len(digits) - 1)) + digits[Len(digits)]

\* int(chars, 2) of a string that starts with a digit: the number, or
\* ValueErr when a character is not a binary digit
ParseBin(chars) ==
  IF \E i \in 1..Len(chars) : chars[i] \notin {0, 1} THEN ValueErr
  ELSE ParseBits(chars)

\* The truth value Python gives a control value
Truthy(value) == value # 0

\* send_controller_value with "10" for both values
mm_always_on(value) == <<1, 0>>

\* send_controller_value, lines 566-569
mm(value) == IF Truthy(value) THEN <<1, 0>> ELSE <<0, 1>>

\* send_controller_value with the group in two digits
v1_two_digit_group(value, group) ==
  ParseBin(<<0, 1>> \o mm(value) \o <<0>> \o FormatBin(group, 2))

\* send_controller_value, lines 570 and 572: int("01{0}0{1:03b}", 2)
v1(value, group) ==
  ParseBin(<<0, 1>> \o mm(value) \o <<0>> \o FormatBin(group, 3))

\* send_controller_value, lines 571 and 573: int("000{0:05b}", 2)
v2(button) == ParseBin(<<0, 0, 0>> \o FormatBin(button, 5))

\* c[0] of a string c: its first character
FirstChar(str) == CASE str = "Sustain" -> "S"

\* send_controller_value, lines 562-563: c[0] for c in swell_ctrls + ["Sustain"]
BypassSymbols ==
  {swell_ctrls[i].symbol : i \in 1..Len(swell_ctrls)} \cup {FirstChar("Sustain")}

\* A call of zynmidi.set_midi_control
MidiControl(chan, cc, val) == [chan |-> chan, cc |-> cc, val |-> val]

\* A zctrl built from an entry of a "ctrls" table
Zctrl(entry, chan, value) ==
  [symbol |-> entry.symbol, midi_chan |-> chan, midi_cc |-> entry.midi_cc,
   value |-> value, graph_path |-> entry.graph_path]

ChanInputs == {0, 9}

ValueInputs == {0, 1, 127}

\* The controls of the four divisions
TableCtrls ==
  UNION {{ctrls(instrument[d])[i] : i \in 1..Len(ctrls(instrument[d]))} :
            d \in 1..Len(instrument)}

\* A stop at every position of the 4x16 grid, in a table or not
GridStops == {Stop("Stop", stop_cc_num, g, b) : g \in 0..3, b \in 0..15}

\* Groups and buttons next to and away from the edges of the grid
GroupInputs == {-1, 0, 3, 4, 8}

ButtonInputs == {-1, 0, 15, 16, 32}

\* Stops of which the group or the button is outside the 4x16 grid
OutOfGridStops ==
  {Stop("Stop", stop_cc_num, g, b) : g \in GroupInputs, b \in ButtonInputs}
    \ GridStops

ZctrlInputs ==
  {Zctrl(entry, chan, value) :
     entry \in TableCtrls \cup GridStops \cup OutOfGridStops,
     chan \in ChanInputs, value \in ValueInputs}

\* send_controller_value, lines 561-573
send_controller_value(ctrl) ==
  /\ pc = "idle"
  /\ zctrl' = ctrl
  /\ call' = Call("send_controller_value", NoBank)
  /\ trace' = <<>>
  /\ IF ctrl.symbol \in BypassSymbols
     THEN /\ midi_control' = <<MidiControl(ctrl.midi_chan, ctrl.midi_cc, ctrl.value)>>
          /\ result' = "None"
     ELSE IF ctrl.graph_path = <<>>
     THEN \* graph_path is None: None[0]
          /\ midi_control' = <<>>
          /\ result' = "TypeError"
     ELSE LET first == v1(ctrl.value, ctrl.graph_path[1])
              second == v2(ctrl.graph_path[2])
          IN IF first = ValueErr
             THEN \* int(v1, 2) raises before the first set_midi_control
                  /\ midi_control' = <<>>
                  /\ result' = "ValueError"
             ELSE IF second = ValueErr
             THEN \* int(v2, 2) raises after the first set_midi_control
                  /\ midi_control' = <<MidiControl(ctrl.midi_chan, stop_cc_num, first)>>
                  /\ result' = "ValueError"
             ELSE /\ midi_control' =
                       <<MidiControl(ctrl.midi_chan, stop_cc_num, first),
                         MidiControl(ctrl.midi_chan, stop_cc_num, second)>>
                  /\ result' = "None"
  /\ UNCHANGED <<engine_vars, busy, fine_tuning_freq, other_chans, definition,
                 alive, pending, spawned, loads, api_calls, pc, stack, timeout,
                 launched>>
  /\ UNCHANGED preset_vars

\* ------------------------------------------------------------------------
\* Presets
\* ------------------------------------------------------------------------

\* An entry of self.presets, a dictionary, which keeps the order of insertion:
\* state maps a division to a mapping from control symbol to value
Preset(name, state) == [name |-> name, state |-> state]

\* preset_exists, line 541: preset_name in self.presets
preset_exists(store, preset_name) ==
  \E i \in 1..Len(store) : store[i].name = preset_name

\* self.presets[name], for a name in the dictionary
presets_get(store, name) ==
  store[CHOOSE i \in 1..Len(store) : store[i].name = name].state

\* self.presets.pop(name), for a name in the dictionary: what is left
presets_pop(store, name) == SelectSeq(store, LAMBDA e : e.name # name)

\* self.presets[name] = state: in place for a name in the dictionary, at
\* the end for a new one
presets_set(store, name, state) ==
  IF preset_exists(store, name)
  THEN [i \in 1..Len(store) |->
          IF store[i].name = name THEN Preset(name, state) ELSE store[i]]
  ELSE Append(store, Preset(name, state))

\* get_preset_list, lines 467-471: [preset_name, bank_info[0], preset_name, index]
get_preset_list(store, bank) ==
  [i \in 1..Len(store) |-> <<store[i].name, bank, store[i].name, i - 1>>]

\* A file that does not exist
NoFile == [kind |-> "none", data |-> <<>>]

\* A file that exists and cannot be read or decoded
Garbled == [kind |-> "garbled", data |-> <<>>]

\* json.dump(self.presets, file): the document that holds the whole store
json_dump(store) == [kind |-> "json", data |-> store]

\* json.load(file) of a document: the store it holds
json_load(file) == file.data

\* load_presets, lines 580-591: the user file if it exists, else the
\* default file; an empty store when reading it raises
load_presets(user, default) ==
  LET filename == IF user.kind # "none" THEN user ELSE default
  IN IF filename.kind = "json" THEN json_load(filename) ELSE <<>>

\* save_all_presets that writes the file only when there is none yet
save_all_presets_keep_existing(store) ==
  IF user_presets_file.kind = "none" THEN json_dump(store) ELSE user_presets_file

\* save_all_presets, lines 508-510: the user file after the write
save_all_presets(store) == json_dump(store)

\* rename_preset that leaves the preset under the old name as well
rename_presets_keep_old(store, old, new_name) ==
  presets_set(store, new_name, presets_get(store, old))

\* rename_preset, line 536: self.presets[new_name] = self.presets.pop(old)
rename_presets(store, old, new_name) ==
  presets_set(presets_pop(store, old), new_name, presets_get(store, old))

\* The name attributes of a processor that are None
NoName == ""

\* preset_info that is None
NoInfo == <<>>

\* Of the controls of a division, the model follows the first and the last
\* of its table
controllers_dict_symbols(division) ==
  {ctrls(division)[1].symbol, ctrls(division)[Len(ctrls(division))].symbol}

\* The value a control is created with: 'off' for a stop and for Sustain,
\* the third element of a swell control
default_value(symbol) ==
  CASE symbol = "Swell" -> 64
    [] symbol = "Trem Freq" -> 42
    [] symbol = "Trem Amp" -> 64
    [] OTHER -> 0

\* processor.controllers_dict of the processor of each division, as values
controllers_dict_init ==
  [d \in {instrument[i] : i \in 1..Len(instrument)} |->
     [s \in controllers_dict_symbols(d) |-> default_value(s)]]

\* The preset attributes of a processor that has selected nothing yet
selection_init ==
  [d \in {instrument[i] : i \in 1..Len(instrument)} |->
     [preset_name |-> NoName, preset_info |-> NoInfo, preset_index |-> None,
      preset_bank_index |-> None, preload_name |-> NoName,
      preload_info |-> NoInfo, preload_index |-> None, bank_index |-> 0]]

\* The arguments of the last call of a preset method
PresetArgs(p, preset_info, preload, name, new_name) ==
  [processor |-> p, preset_info |-> preset_info, preload |-> preload,
   name |-> name, new_name |-> new_name]

NoArgs == PresetArgs(None, NoInfo, FALSE, NoName, NoName)

\* __init__, line 234, and the attributes the processors are created with
InitPresets(user, default) ==
  /\ user_presets_file = user
  /\ default_presets_file = default
  /\ presets = load_presets(user, default)
  /\ controllers = controllers_dict_init
  /\ selection = selection_init
  /\ preset_args = NoArgs
  /\ written = FALSE
  /\ preset_ops = 0

\* The state of the controls of Manual I with all stops followed drawn
FooState ==
  [d \in {"Manual I", "Manual II"} |->
     [s \in controllers_dict_symbols(d) |-> 127]]

\* A state that lacks Manual II and the Sustain of Manual I, and that holds
\* a division without processor and a symbol without control
BarState ==
  [d \in {"Manual I", "Pedals"} |->
     IF d = "Manual I" THEN [s \in {"Principal 8", "Vox Humana"} |-> 127]
     ELSE [s \in {"Subbass 16"} |-> 127]]

\* The preset file that comes with the system
DefaultPresets == <<Preset("Bar", BarState)>>

\* A preset file of the user
UserPresets == <<Preset("Foo", FooState), Preset("Bar", BarState)>>

\* The user file and the default file the engine is constructed with
PresetFiles ==
  {<<NoFile, json_dump(DefaultPresets)>>,
   <<json_dump(UserPresets), json_dump(DefaultPresets)>>,
   <<Garbled, json_dump(DefaultPresets)>>,
   <<NoFile, Garbled>>,
   <<NoFile, NoFile>>}

\* The preset names the collaborator uses
PresetNames == {"Foo", "Bar", "Baz"}

\* The values the collaborator gives a control
ControlValues == {0, 127}

\* get_bank_list, lines 429-432: the first element of the banks a
\* configured engine offers for processor p
PresetBanks(p) ==
  IF selection[processors[p].division].preset_info = NoInfo THEN {"General"}
  ELSE {"General", processors[p].division}

\* The preset_info the collaborator holds for a name: the entry of
\* get_preset_list, or an entry of an earlier list when the preset is gone
PresetInfo(store, bank, name) ==
  IF preset_exists(store, name)
  THEN LET list == get_preset_list(store, bank)
       IN list[CHOOSE i \in 1..Len(list) : list[i][1] = name]
  ELSE <<name, bank, name, 0>>

\* set_preset, line 488: the processor l is in the scope of the call
in_scope(l, p, preset_info) == preset_info[2] = "General" \/ l = p

\* The division d belongs to a processor in the scope of the call
division_in_scope(d, p, preset_info) ==
  \E l \in 1..Len(processors) :
    processors[l].division = d /\ in_scope(l, p, preset_info)

\* set_preset that switches off a control the preset has no value for
set_preset_values_missing_off(dict, preset, division) ==
  [s \in DOMAIN dict |->
     IF division \in DOMAIN preset /\ s \in DOMAIN preset[division]
     THEN preset[division][s]
     ELSE 0]

\* set_preset, lines 489-494: the controls of one processor after the
\* values of the preset were pushed; a key the preset lacks raises KeyError,
\* which is passed over
set_preset_values(dict, preset, division) ==
  [s \in DOMAIN dict |->
     IF division \in DOMAIN preset /\ s \in DOMAIN preset[division]
     THEN preset[division][s]
     ELSE dict[s]]

\* set_preset that commits also when it preloads
set_preset_selection_always_commit(sel, preset_info, preload) ==
  [sel EXCEPT !.preset_name = preset_info[3], !.preset_info = preset_info,
              !.preset_index = preset_info[4], !.preset_bank_index = sel.bank_index,
              !.preload_index = preset_info[4], !.preload_name = preset_info[3],
              !.preload_info = preset_info]

\* set_preset, lines 496-503: the preset attributes of one processor
set_preset_selection(sel, preset_info, preload) ==
  LET l == IF ~preload
           THEN [sel EXCEPT !.preset_name = preset_info[3],
                            !.preset_info = preset_info,
                            !.preset_index = preset_info[4],
                            !.preset_bank_index = sel.bank_index]
           ELSE sel
  IN [l EXCEPT !.preload_index = l.preset_index,
               !.preload_name = l.preset_name,
               !.preload_info = l.preset_info]

\* What the preset methods leave alone
preset_frame ==
  UNCHANGED <<engine_vars, busy, fine_tuning_freq, other_chans, definition,
              alive, pending, spawned, loads, api_calls, pc, stack, timeout,
              launched, ctrl_vars>>

\* set_preset, lines 484-506
set_preset(p, preset_info, preload) ==
  /\ pc = "idle"
  /\ preset_ops < MaxPresetOps
  /\ preset_ops' = preset_ops + 1
  /\ call' = Call("set_preset", NoBank)
  /\ preset_args' = PresetArgs(p, preset_info, preload, preset_info[3], NoName)
  /\ trace' = <<>>
  /\ written' = FALSE
  /\ IF ~preset_exists(presets, preset_info[3])
     THEN \* self.presets[preset_info[2]] raises
          /\ result' = "KeyError"
          /\ UNCHANGED <<controllers, selection>>
     ELSE LET preset == presets_get(presets, preset_info[3])
          IN /\ controllers' =
                  [d \in DOMAIN controllers |->
                     IF division_in_scope(d, p, preset_info)
                     THEN set_preset_values(controllers[d], preset, d)
                     ELSE controllers[d]]
             /\ selection' =
                  [d \in DOMAIN selection |->
                     IF division_in_scope(d, p, preset_info)
                     THEN set_preset_selection(selection[d], preset_info, preload)
                     ELSE selection[d]]
             /\ result' = "True"
  /\ UNCHANGED <<presets, user_presets_file, default_presets_file>>
  /\ preset_frame

\* save_preset, lines 513-521: the values of the controls of every
\* processor, stored under the name and written
save_preset(preset_name) ==
  /\ pc = "idle"
  /\ preset_ops < MaxPresetOps
  /\ preset_ops' = preset_ops + 1
  /\ call' = Call("save_preset", NoBank)
  /\ preset_args' = PresetArgs(None, NoInfo, FALSE, preset_name, NoName)
  /\ trace' = <<>>
  /\ LET state == [d \in {processors[l].division : l \in 1..Len(processors)} |->
                     controllers[d]]
     IN presets' = presets_set(presets, preset_name, state)
  /\ user_presets_file' = save_all_presets(presets')
  /\ written' = TRUE
  /\ result' = preset_name
  /\ UNCHANGED <<default_presets_file, controllers, selection>>
  /\ preset_frame

\* delete_preset, lines 524-530; it returns the number of presets left
delete_preset(preset_info) ==
  /\ pc = "idle"
  /\ preset_ops < MaxPresetOps
  /\ preset_ops' = preset_ops + 1
  /\ call' = Call("delete_preset", NoBank)
  /\ preset_args' = PresetArgs(None, preset_info, FALSE, preset_info[3], NoName)
  /\ trace' = <<>>
  /\ IF ~preset_exists(presets, preset_info[3])
     THEN \* pop raises KeyError: return
          /\ result' = "None"
          /\ written' = FALSE
          /\ UNCHANGED <<presets, user_presets_file>>
     ELSE /\ presets' = presets_pop(presets, preset_info[3])
          /\ user_presets_file' = save_all_presets(presets')
          /\ written' = TRUE
          /\ result' = "len"
  /\ UNCHANGED <<default_presets_file, controllers, selection>>
  /\ preset_frame

\* rename_preset, lines 533-538
rename_preset(preset_info, new_name) ==
  /\ pc = "idle"
  /\ preset_ops < MaxPresetOps
  /\ preset_ops' = preset_ops + 1
  /\ call' = Call("rename_preset", NoBank)
  /\ preset_args' = PresetArgs(None, preset_info, FALSE, preset_info[3], new_name)
  /\ trace' = <<>>
  /\ IF ~preset_exists(presets, preset_info[3])
     THEN \* pop raises KeyError: pass
          /\ written' = FALSE
          /\ UNCHANGED <<presets, user_presets_file>>
     ELSE /\ presets' = rename_presets(presets, preset_info[3], new_name)
          /\ user_presets_file' = save_all_presets(presets')
          /\ written' = TRUE
  /\ result' = "None"
  /\ UNCHANGED <<default_presets_file, controllers, selection>>
  /\ preset_frame

\* load_presets, lines 580-591, called again
call_load_presets ==
  /\ pc = "idle"
  /\ preset_ops < MaxPresetOps
  /\ preset_ops' = preset_ops + 1
  /\ call' = Call("load_presets", NoBank)
  /\ preset_args' = NoArgs
  /\ trace' = <<>>
  /\ presets' = load_presets(user_presets_file, default_presets_file)
  /\ written' = FALSE
  /\ result' = "None"
  /\ UNCHANGED <<user_presets_file, default_presets_file, controllers, selection>>
  /\ preset_frame

\* zctrl.set_value(value) by the collaborator, for the control symbol of
\* processor p
set_value(p, symbol, value) ==
  /\ pc = "idle"
  /\ preset_ops < MaxPresetOps
  /\ preset_ops' = preset_ops + 1
  /\ symbol \in DOMAIN controllers[processors[p].division]
  /\ call' = Call("set_value", NoBank)
  /\ preset_args' = NoArgs
  /\ trace' = <<>>
  /\ controllers' = [controllers EXCEPT ![processors[p].division][symbol] = value]
  /\ written' = FALSE
  /\ result' = "None"
  /\ UNCHANGED <<presets, user_presets_file, default_presets_file, selection>>
  /\ preset_frame

\* ------------------------------------------------------------------------
\* Specifications
\* ------------------------------------------------------------------------

\* The engine after construction, with the preset file that comes with the
\* system
Init ==
  /\ \E file \in DefinitionFiles : InitEngine(file, 0, {}, 440)
  /\ InitPresets(NoFile, json_dump(DefaultPresets))

\* The engine as the user interface drives it: banks come from get_bank_list
Next ==
  \/ \E bank_info \in BankInputs(get_bank_list(keyboard_config, temperament)) :
       set_bank(bank_info)
  \/ set_bank_resume
  \/ \E outcome \in StopOutcomes : stop(outcome)
  \/ \E spawn_ok \in BOOLEAN : start(spawn_ok)
  \/ start_end
  \/ wait_for_ready
  \/ set_tuning
  \/ set_tuning_save
  \/ \E path \in InboundPaths : cb_osc_all(path)
  \/ engine_save
  \/ \E engine_state \in ExtendedConfigs : set_extended_config(engine_state)

Spec == Init /\ [][Next]_vars

\* The channel of the first processor and the channels of the other chains
\* when the engine is created: none claimed, the hint near the top, all
\* claimed, and two channels left
ChanSetups ==
  {<<0, {}>>, <<14, {15}>>, <<0, Chans \ {0}>>, <<3, Chans \ {3, 5, 9}>>}

InitChan ==
  /\ \E setup \in ChanSetups :
       InitEngine(<<TuningLine(440, 5)>>, setup[1], setup[2], 440)
  /\ InitPresets(NoFile, json_dump(DefaultPresets))

\* The engine driven through set_bank, next to other chains
NextChan ==
  \/ \E bank_info \in BankInputs(get_bank_list(keyboard_config, temperament)) :
       set_bank(bank_info)
  \/ \E outcome \in StopOutcomes : stop(outcome)
  \/ \E spawn_ok \in BOOLEAN : start(spawn_ok)
  \/ start_end
  \/ wait_for_ready
  \/ set_tuning
  \/ set_tuning_save
  \/ \E path \in InboundPaths : cb_osc_all(path)
  \/ engine_save

SpecChan == InitChan /\ [][NextChan]_vars

\* The engine as the controllers of the user interface drive it
NextCtrl == \E ctrl \in ZctrlInputs : send_controller_value(ctrl)

SpecCtrl == Init /\ [][NextCtrl]_vars

\* The lines of a definition file: two well-formed /tuning lines, one with a
\* frequency and one with a temperament that do not parse, one without the
\* second field, and a line that is no /tuning line
ConfigLines ==
  {TuningLine(440, 5), TuningLine(438, 4),
   [key |-> "/tuning", freq |-> "44O.O", temp |-> "5"],
   [key |-> "/tuning", freq |-> "440.0", temp |-> "five"],
   [key |-> "/tuning", freq |-> "438.0", temp |-> ""],
   [key |-> "/instr", freq |-> "", temp |-> ""]}

\* The definition files of at most MaxLines lines
ConfigFiles ==
  UNION {[1..n -> ConfigLines] : n \in 0..MaxLines}

\* The engine constructed with a definition file and a pair of preset files
InitFiles ==
  /\ \E file \in ConfigFiles : InitEngine(file, 0, {}, 440)
  /\ \E files \in PresetFiles : InitPresets(files[1], files[2])

\* get_current_config(), lines 314-328
call_get_current_config ==
  /\ UNCHANGED ctrl_vars
  /\ UNCHANGED preset_vars
  /\ UNCHANGED launched
  /\ api_calls < MaxApiCalls
  /\ api_calls' = api_calls + 1
  /\ pc = "idle"
  /\ call' = DirectCall("get_current_config")
  /\ trace' = <<EvDefinition(definition)>>
  /\ LET cur == get_current_config(definition,
                  <<current_tuning_freq, current_temperament>>)
     IN /\ current_tuning_freq' = cur[1]
        /\ current_temperament' = cur[2]
  /\ result' = "None"
  /\ UNCHANGED <<keyboard_config, temperament, restart_flag, proc, ready,
                 processors, osc_server, busy, fine_tuning_freq, other_chans,
                 definition, alive, pending, spawned, loads, pc, stack, timeout>>

\* The files read again
NextFiles ==
  \/ call_get_current_config
  \/ call_load_presets

SpecFiles == InitFiles /\ [][NextFiles]_vars

\* The engine running with layout 3 and temperament 5, its two processors
\* on channels 0 and 1, constructed with one of the pairs of preset files
InitPreset ==
  /\ keyboard_config = 3
  /\ temperament = 5
  /\ restart_flag = FALSE
  /\ proc = 1
  /\ ready = TRUE
  /\ processors = add_processor(add_processor(<<>>, 0), 1)
  /\ definition = <<TuningLine(440, 5)>>
  /\ current_tuning_freq = 440
  /\ current_temperament = 5
  /\ osc_server = TRUE
  /\ busy = FALSE
  /\ fine_tuning_freq = 440
  /\ other_chans = {}
  /\ alive = {1}
  /\ pending = <<>>
  /\ spawned = 1
  /\ loads = 0
  /\ api_calls = 0
  /\ pc = "idle"
  /\ stack = <<>>
  /\ timeout = 0
  /\ call = [method |-> "__init__", bank_info |-> NoBank, again |-> FALSE]
  /\ result = "None"
  /\ trace = <<>>
  /\ launched = <<3, 5>>
  /\ zctrl = NoCtrl
  /\ midi_control = <<>>
  /\ \E files \in PresetFiles : InitPresets(files[1], files[2])

\* The preset methods and the controls, as the user interface drives them
NextPreset ==
  \/ \E p \in 1..Len(processors), name \in PresetNames, preload \in BOOLEAN :
       \E bank \in PresetBanks(p) :
         set_preset(p, PresetInfo(presets, bank, name), preload)
  \/ \E name \in PresetNames : save_preset(name)
  \/ \E name \in PresetNames : delete_preset(PresetInfo(presets, "General", name))
  \/ \E name, new_name \in PresetNames :
       rename_preset(PresetInfo(presets, "General", name), new_name)
  \/ call_load_presets
  \/ \E p \in 1..Len(processors), value \in ControlValues :
       \E symbol \in controllers_dict_symbols(processors[p].division) :
         set_value(p, symbol, value)

SpecPreset == InitPreset /\ [][NextPreset]_vars

\* The steps of the foreground thread inside a call of set_bank that starts
Foreground ==
  \/ \E spawn_ok \in BOOLEAN : start(spawn_ok)
  \/ start_end
  \/ wait_for_ready
  \/ set_tuning
  \/ set_tuning_save

\* The engine driven through set_bank with all four divisions selected
NextFair ==
  \/ \E bank_info \in ApiBankInputs : set_bank(bank_info)
  \/ \E outcome \in StopOutcomes : stop(outcome)
  \/ \E spawn_ok \in BOOLEAN : start(spawn_ok)
  \/ start_end
  \/ wait_for_ready
  \/ set_tuning
  \/ set_tuning_save
  \/ \E path \in InboundPaths : cb_osc_all(path)
  \/ engine_save

\* The foreground thread keeps running: sleep() returns, calls return
SpecFair == Init /\ [][NextFair]_vars /\ WF_vars(Foreground)

\* The engine next to other chains, with a foreground thread that keeps running
SpecChanFair == SpecChan /\ WF_vars(Foreground)


\* The engine as a collaborator drives it that calls its methods directly,
\* in any order and with bank entries of any step
NextApi ==
  \/ \E bank_info \in ApiBankInputs : set_bank(bank_info)
  \/ call_start
  \/ call_set_tuning
  \/ call_wait_for_ready
  \/ \E outcome \in StopOutcomes : stop(outcome)
  \/ \E spawn_ok \in BOOLEAN : start(spawn_ok)
  \/ start_end
  \/ wait_for_ready
  \/ set_tuning
  \/ set_tuning_save
  \/ \E path \in InboundPaths : cb_osc_all(path)
  \/ engine_save

SpecApi == Init /\ [][NextApi]_vars


\* ------------------------------------------------------------------------
\* Vocabulary of the properties
\* ------------------------------------------------------------------------

Exceptions == {"TypeError", "AttributeError", "ExceptionPexpect", "ValueError", "KeyError"}

Messages == {"/retune", "/save", "/exit", "/store_midi_config"}

IsMessage(e) == e.ev \in Messages

\* The protocol messages of a trace, in order
Sent(tr) == SelectSeq(tr, IsMessage)

\* The step is one of the foreground thread
ForegroundStep ==
  <<pc, stack, timeout, call, result, trace, loads, api_calls>>'
    # <<pc, stack, timeout, call, result, trace, loads, api_calls>>

\* The step is a call of set_bank by the collaborator
SetBankCalled == pc = "idle" /\ call'.method = "set_bank" /\ ForegroundStep

\* The step is the body of start up to the spawn
StartStep == pc = "start" /\ pc' # "start"

\* The last call was a set_bank that ran start to its end
StartCompleted ==
  pc = "idle" /\ call.method = "set_bank" /\ At(trace, "/store_midi_config") # {}

\* The divisions of the processors
Divisions(procs) == {procs[i].division : i \in 1..Len(procs)}

\* The divisions a layout names: bit i selects the i-th division
LayoutDivisions(layout) ==
  {instrument[i + 1] : i \in {j \in 0..(Len(instrument) - 1) : BitSet(layout, j)}}

\* ------------------------------------------------------------------------
\* Properties
\* ------------------------------------------------------------------------

\* C1: set_bank called with a temperament entry while keyboard_config is
\* unset is a no-op: keyboard_config and temperament stay unset and nothing
\* is launched.  (The code records the entry's index as the layout.)
C1_TemperamentBeforeLayoutRejected ==
  [][(SetBankCalled /\ keyboard_config = None
        /\ call'.bank_info.kind = "temperament")
     => (keyboard_config' = None /\ temperament' = None
           /\ spawned' = spawned /\ pc' = "idle")]_vars

\* C2: start() while keyboard_config or temperament is unset is rejected: no
\* division is added, no process is spawned, no message is sent and no
\* exception escapes.  (The code raises TypeError, or adds and spawns.)
C2_StartBeforeSelectionsRejected ==
  [][(StartStep /\ (keyboard_config = None \/ temperament = None))
     => (pc' = "idle" /\ result' \notin Exceptions
           /\ processors' = processors /\ spawned' = spawned
           /\ Sent(trace') = Sent(trace))]_vars

\* C3: a start requested while a process is held and no restart is pending,
\* through set_bank or by a call of start(), is a no-op success: the
\* processors are unchanged and no process is spawned, whatever the layout.
\* (set_bank returns True at once; start() itself has no guard and spawns.)
C3_SecondStartIdempotent ==
  [][/\ (SetBankCalled /\ keyboard_config # None /\ proc # None /\ ~restart_flag)
          => (pc' = "idle" /\ result' = "True" /\ processors' = processors
                /\ spawned' = spawned /\ proc' = proc /\ alive' = alive)
     /\ (StartStep /\ proc # None /\ ~restart_flag)
          => (pc' = "idle" /\ result' \notin Exceptions
                /\ processors' = processors /\ spawned' = spawned
                /\ proc' = proc /\ alive' = alive)]_vars

\* C4: after a completed start with layout L and enough free channels, the
\* divisions of the processors are exactly those whose bit is set in L.
\* (add_processor names the divisions by position, not by bit.)
C4_DivisionsMatchLayout ==
  (StartCompleted /\ keyboard_config \in Layouts)
    => Divisions(processors) = LayoutDivisions(keyboard_config)

\* A request the engine answers with /ready
IsRequest(e) == e.ev \in {"spawn", "/retune"}

\* A wait_for_ready that has ended
IsWait(e) == e.ev \in {"wait:ready", "wait:timeout"}

ConfigMessages == {"/retune", "/save", "/store_midi_config"}

\* The position of the last request of a trace before position j, 0 if none
LastRequest(tr, j) ==
  LET before == {r \in 1..(j - 1) : IsRequest(tr[r])}
  IN  IF before = {} THEN 0 ELSE CHOOSE r \in before : \A q \in before : q <= r

\* C5 as stated: every configuration message in a call that made a request is
\* sent after a wait that saw ready true since the last request.  (A wait
\* that times out lets the message go without /ready.)
C5_ConfigOnlyAfterReady ==
  \A j \in 1..Len(trace) :
    (trace[j].ev \in ConfigMessages /\ LastRequest(trace, j) # 0)
      => \E w \in (LastRequest(trace, j) + 1)..(j - 1) : trace[w].ev = "wait:ready"

\* C5: every configuration message in a call that made a request is sent
\* after a wait_for_ready since the last request has ended, by seeing ready
\* true or by running out of its 40 polls.
C5_ConfigOnlyAfterWait ==
  \A j \in 1..Len(trace) :
    (trace[j].ev \in ConfigMessages /\ LastRequest(trace, j) # 0)
      => \E w \in (LastRequest(trace, j) + 1)..(j - 1) : IsWait(trace[w])

\* C5: a start has sent /retune, /save and the MIDI configuration after a
\* wait that timed out
C5_Witness ==
  /\ pc = "idle" /\ At(trace, "spawn") # {} /\ At(trace, "wait:timeout") # {}
  /\ At(trace, "/retune") # {} /\ At(trace, "/save") # {}
  /\ At(trace, "/store_midi_config") # {}

\* The step is the listener's, handling a /ready the engine sent
ReadyDispatched ==
  /\ pending # <<>> /\ Head(pending).req \in {"launch", "/retune"}
  /\ pending' = Tail(pending)
  /\ osc_server /\ ~ForegroundStep

\* The step is the listener's, handling another message
OtherDispatched ==
  ~ForegroundStep /\ pending' = pending /\ definition' = definition

\* C6 as stated: ready is never true before the listener has handled a
\* /ready, which takes a spawned engine.  (__init__ sets ready to True.)
C6_ReadyOnlyByCallback == ready => spawned > 0

\* C6: after construction, which leaves ready true, ready goes from false to
\* true only in the listener's handling of /ready, and the handling of any
\* other message changes no engine state.
C6_ReadyRaisedOnlyByCallback ==
  [][/\ (~ready /\ ready') => ReadyDispatched
     /\ OtherDispatched => UNCHANGED engine_vars]_vars

\* C6: the listener has set ready while start waits for it
C6_Witness == ready /\ pc = "wait" /\ spawned > 0 /\ pending = <<>>

\* C7: wait_for_ready(None) returns without raising once ready is true.
\* (Its second loop compares None with 0.)
C7_UnboundedWaitReturns ==
  (pc = "idle" /\ call.method = "wait_for_ready") => result = "None"

\* The step is one of wait_for_ready
WaitStep == pc = "wait" /\ ForegroundStep

\* A call reached the spawn and has ended
StartEnded == pc = "idle" /\ At(trace, "spawn") # {}

\* C8: a wait counts at most 40 polls, goes on only while ready is false and
\* the count is positive, and ends without an exception; every call ends;
\* and a start that spawned ends with the requested tuning on record and the
\* MIDI configuration sent, also when both waits timed out.
C8_TimeoutNonFatal ==
  /\ [](pc = "wait" => timeout \in 0..(DefaultTimeout * PollsPerSecond))
  /\ [][WaitStep => IF pc' = "wait"
                    THEN ~ready /\ timeout > 0 /\ timeout' = timeout - 1
                    ELSE result' \notin Exceptions]_vars
  /\ (pc # "idle") ~> (pc = "idle")
  /\ [](StartEnded => /\ result \notin Exceptions
                      /\ tuning_unchanged
                      /\ At(trace, "/store_midi_config") # {})

\* C8: a start has ended whose two waits both timed out
C8_Witness ==
  /\ StartEnded /\ call.method = "set_bank"
  /\ At(trace, "wait:ready") = {}
  /\ Cardinality(At(trace, "wait:timeout")) = 2
  /\ At(trace, "/store_midi_config") # {}

\* The definition file as the start of this call read it
FileAtStart == trace[CHOOSE i \in At(trace, "definition") : TRUE].cfg

\* Every /tuning line of the file holds the pair, and there is one
FileHolds(file, f, t) ==
  /\ \E i \in 1..Len(file) : file[i].key = "/tuning"
  /\ \A i \in 1..Len(file) :
       file[i].key = "/tuning" => (ParseFloat(file[i].freq) = f /\ ParseInt(file[i].temp) = t)

\* C9: in a completed start, a file holding the requested pair means no
\* /retune and no /save; a file holding another pair means exactly one
\* /retune, carrying the requested pair, and then exactly one /save.
C9_RetuneOnlyOnChange ==
  (StartCompleted /\ At(trace, "definition") # {})
    => IF FileHolds(FileAtStart, fine_tuning_freq, temperament)
       THEN At(trace, "/retune") = {} /\ At(trace, "/save") = {}
       ELSE (\E f \in {438, 440}, t \in Temperaments : FileHolds(FileAtStart, f, t))
            => /\ Cardinality(At(trace, "/retune")) = 1
               /\ Cardinality(At(trace, "/save")) = 1
               /\ \A i \in At(trace, "/retune") :
                    /\ trace[i].freq = fine_tuning_freq
                    /\ trace[i].temp = temperament
                    /\ \A j \in At(trace, "/save") : i < j

\* C9: a start over a file holding (438, 4) has retuned to (440, 5) and saved
C9_Witness ==
  /\ StartCompleted /\ At(trace, "definition") # {}
  /\ FileHolds(FileAtStart, 438, 4)
  /\ \E i \in At(trace, "/retune") : trace[i].freq = 440 /\ trace[i].temp = 5
  /\ At(trace, "/save") # {}

\* C10: a set_tuning called right after a set_tuning sends nothing and
\* returns False.
C10_SecondSetTuningSilent ==
  (call.method = "set_tuning" /\ call.again)
    => /\ Sent(trace) = <<>>
       /\ pc \in {"set_tuning", "idle"}
       /\ pc = "idle" => result = "False"

\* C10: the second set_tuning has returned False while the tuning on record
\* is not the one in the file: a retune went before
C10_Witness ==
  /\ call.method = "set_tuning" /\ call.again /\ pc = "idle" /\ result = "False"
  /\ osc_server
  /\ get_current_config(definition, <<current_tuning_freq, current_temperament>>)
       # <<current_tuning_freq, current_temperament>>

\* The process the engine holds still runs
ProcessLive == proc # None /\ proc \in alive

\* C11: while the held process is live and keyboard_config or temperament is
\* not what it was when that process was spawned, restart_flag is set.
\* (set_extended_config sets the flag for the layout only, and stop clears it
\* also when it fails to end the process.)
C11_ChangeSetsRestartFlag ==
  (ProcessLive /\ <<keyboard_config, temperament>> # launched) => restart_flag

\* The step is the stop() that set_bank calls for a pending restart
RestartStopStep == pc = "stop" /\ pc' # "stop"

\* C12: in a set_bank with restart_flag set and a live process, stop sends
\* /exit and ends the process before anything is spawned and drops the
\* handle; set_bank then goes on to start, which spawns one new process and
\* holds that one; restart_flag is clear.  (When isalive or terminate raises,
\* stop keeps the handle and set_bank reuses the old process.)
C12_RestartStopsThenStarts ==
  [][/\ (RestartStopStep /\ ProcessLive /\ restart_flag)
          => /\ At(trace', "/exit") # {}
             /\ proc' = None /\ proc \notin alive'
             /\ spawned' = spawned
             /\ ~restart_flag'
             /\ pc' = "set_bank_tail"
     /\ (pc = "set_bank_tail" /\ At(trace, "/exit") # {} /\ ForegroundStep)
          => pc' = "start"
     /\ (StartStep /\ spawned' # spawned)
          => /\ spawned' = spawned + 1
             /\ proc' = spawned' /\ proc' \notin alive /\ proc' \in alive'
             /\ ~restart_flag']_vars

\* The step is a stop(), called by the collaborator or by set_bank
StopStep ==
  \/ pc = "idle" /\ call'.method = "stop" /\ ForegroundStep
  \/ RestartStopStep

\* C13: a stop() on a live process sends /exit first and then terminates the
\* process at most once; on return the process runs no more, no handle is
\* held and restart_flag is clear.  (When isalive or terminate raises, or
\* when the OSC server is gone, the handle stays.)
C13_StopEndsProcess ==
  [][(StopStep /\ ProcessLive)
       => /\ trace' # <<>> /\ trace'[1].ev = "/exit"
          /\ Cardinality(At(trace', "terminate")) <= 1
          /\ proc \notin alive'
          /\ proc' = None
          /\ ~restart_flag']_vars

\* C14: whatever raises in the teardown (the send of /exit, isalive,
\* terminate), stop() returns normally, to the collaborator or to set_bank,
\* and restart_flag is clear.
C14_TeardownErrorsCaught ==
  [][StopStep
       => /\ ~restart_flag'
          /\ result' \notin Exceptions
          /\ \/ pc' = "idle" /\ result' = "None"
             \/ pc' = "set_bank_tail"]_vars

\* C14: a stop() has returned None after terminate raised
C14_Witness ==
  /\ pc = "idle" /\ call.method = "stop" /\ result = "None" /\ ~restart_flag
  /\ At(trace, "/exit") # {} /\ At(trace, "terminate") # {}
  /\ At(trace, "error") # {}

\* C15: the channels of the engine's processors are pairwise distinct and
\* none is a channel of another chain; when all 16 channels are claimed the
\* allocator returns None.
C15_ChannelsUnique ==
  /\ \A i, j \in 1..Len(processors) :
       i # j => processors[i].midi_chan # processors[j].midi_chan
  /\ \A i \in 1..Len(processors) :
       processors[i].midi_chan \in Chans \ other_chans
  /\ ClaimedChans(processors, other_chans) = Chans
       => get_next_free_midi_chan(processors[1].midi_chan,
                                  ClaimedChans(processors, other_chans)) = None

\* C15: a start with layout 15 next to 13 claimed channels has ended with
\* three processors and all 16 channels claimed
C15_Witness ==
  /\ StartCompleted /\ keyboard_config = 15 /\ Len(processors) = 3
  /\ Cardinality(other_chans) = 13
  /\ ClaimedChans(processors, other_chans) = Chans

\* The channels no chain has claimed
FreeChans == Chans \ ClaimedChans(processors, other_chans)

\* The divisions a start has to add for layout kc
Wanted(kc) == {i \in 1..(Len(instrument) - 1) : BitSet(kc, i)}

\* A start that runs out of channels
Exhausted ==
  /\ Len(processors) <= 1 /\ keyboard_config # None
  /\ Cardinality(Wanted(keyboard_config)) > Cardinality(FreeChans)

\* C16: a start that runs out of channels keeps the processors it had, adds
\* one per free channel and no more, raises nothing but what a failing spawn
\* raises, spawns the engine, and the call goes on to its end with the MIDI
\* configuration sent.
C16_ExhaustionNonFatal ==
  /\ [][(StartStep /\ Exhausted)
          => /\ SubSeq(processors', 1, Len(processors)) = processors
             /\ Len(processors') = Len(processors) + Cardinality(FreeChans)
             /\ result' \in {"pending", "ExceptionPexpect"}
             /\ result' = "pending"
                  => (pc' = "wait" /\ spawned' = spawned + 1 /\ proc' = spawned')]_vars
  /\ [](StartEnded => (result \notin Exceptions /\ At(trace, "/store_midi_config") # {}))
  /\ (pc = "wait") ~> (pc = "idle")

\* C16: a start with layout 15 and no free channel has ended with the one
\* processor it had
C16_Witness ==
  /\ StartCompleted /\ keyboard_config = 15 /\ Len(processors) = 1
  /\ FreeChans = {} /\ result = "None"

\* The last call was a set_bank whose start failed to spawn
SpawnFailed ==
  pc = "idle" /\ call.method = "set_bank" /\ result = "ExceptionPexpect"

\* C17: a start whose spawn raises ends the call with that exception, keeps
\* keyboard_config and temperament and records no process handle; the next
\* set_bank starts again; and no start leaves two processors with the same
\* division.
C17_SpawnFailureRetry ==
  [][/\ (StartStep /\ result' = "ExceptionPexpect")
          => /\ pc' = "idle"
             /\ keyboard_config' = keyboard_config /\ temperament' = temperament
             /\ proc' = None /\ spawned' = spawned /\ alive' = alive
     /\ (SpawnFailed /\ SetBankCalled)
          => (pc' = "start" /\ keyboard_config' = keyboard_config
                /\ temperament' = temperament)
     /\ StartStep
          => /\ Cardinality(Divisions(processors')) = Len(processors')
             /\ (busy /\ Len(processors) > 1) => processors' = processors]_vars

\* C17: after a failed spawn the next set_bank is about to start again,
\* with the divisions the failed start added
C17_Witness ==
  /\ pc = "start" /\ busy /\ call.method = "set_bank" /\ proc = None
  /\ Len(processors) = 4 /\ keyboard_config = 15 /\ temperament = 5

\* The bank list offers the eleven temperaments, in the order of the table
OffersTemperaments(list) ==
  /\ Len(list) = 11
  /\ \A i \in 1..Len(list) :
       list[i] = BankInfo("temperament", temperament_names[i])

\* C18: set_bank with a layout entry while keyboard_config is unset records
\* the layout and nothing else, and returns None; get_bank_list then offers
\* the eleven temperaments; the set_bank that follows records the
\* temperament and runs start before it returns.  (After a stop that kept the
\* handle, that set_bank returns True without a start.)
C18_LayoutThenTemperament ==
  [][/\ (SetBankCalled /\ keyboard_config = None /\ temperament = None
           /\ call'.bank_info.kind = "layout")
          => /\ keyboard_config' = call'.bank_info.index
             /\ temperament' = None
             /\ processors' = processors /\ spawned' = spawned /\ proc' = proc
             /\ trace' = <<>>
             /\ pc' = "idle" /\ result' = "None"
             /\ OffersTemperaments(get_bank_list(keyboard_config', temperament'))
     /\ (SetBankCalled /\ keyboard_config # None /\ temperament = None)
          => /\ temperament' = call'.bank_info.index
             /\ keyboard_config' = keyboard_config
             /\ pc' \in {"start", "stop"}
     /\ (pc = "set_bank_tail" /\ call.bank_info.kind = "temperament"
           /\ ForegroundStep)
          => pc' = "start"]_vars

\* The control last sent is a stop inside the 4x16 grid
StopSent ==
  /\ call.method = "send_controller_value"
  /\ zctrl.symbol \notin BypassSymbols
  /\ zctrl.graph_path # <<>>
  /\ zctrl.graph_path[1] \in 0..3 /\ zctrl.graph_path[2] \in 0..15

\* C19: for a stop at (group, button) sent with value v, exactly two control
\* changes are emitted, on the control's channel and on address 98: first
\* 64 + 16 * mm + group (0b01mm0ggg) with mm = 2 when v is truthy and 1
\* otherwise, then button (0b000bbbbb).
C19_StopEncoding ==
  StopSent
    => /\ result = "None"
       /\ midi_control =
            <<MidiControl(zctrl.midi_chan, 98,
                          64 + 16 * (IF zctrl.value # 0 THEN 2 ELSE 1)
                             + zctrl.graph_path[1]),
              MidiControl(zctrl.midi_chan, 98, zctrl.graph_path[2])>>

\* C19: the stop I+III of Manual I, at (2, 15), was switched on, on channel 9
C19_Witness ==
  /\ StopSent /\ zctrl.symbol = "I+III" /\ zctrl.graph_path = <<2, 15>>
  /\ zctrl.value = 127 /\ zctrl.midi_chan = 9
  /\ Len(midi_control) = 2 /\ midi_control[1].val = 98 /\ midi_control[2].val = 15

\* The (value, group, button) that two emitted integers stand for
Decode(first, second) ==
  <<(first \div 16) % 4 = 2, first % 8, second % 32>>

\* C20: decoding the two integers emitted for a stop gives back its (value,
\* group, button), and no stop of the grid that differs from it in value,
\* group or button is encoded to the same two integers.
C20_CodecRoundTrip ==
  /\ StopSent
       => /\ Len(midi_control) = 2
          /\ Decode(midi_control[1].val, midi_control[2].val)
               = <<zctrl.value # 0, zctrl.graph_path[1], zctrl.graph_path[2]>>
  /\ StopSent
       => \A g \in 0..3, b \in 0..15, x \in {0, 127} :
            (Len(midi_control) = 2
               /\ v1(x, g) = midi_control[1].val /\ v2(b) = midi_control[2].val)
              => <<x # 0, g, b>>
                   = <<zctrl.value # 0, zctrl.graph_path[1], zctrl.graph_path[2]>>

\* C20: a stop at (3, 9) was switched off and the emitted pair decodes to it
C20_Witness ==
  /\ StopSent /\ zctrl.graph_path = <<3, 9>> /\ zctrl.value = 0
  /\ Len(midi_control) = 2
  /\ Decode(midi_control[1].val, midi_control[2].val) = <<FALSE, 3, 9>>

\* The continuous and sustain controls
ContinuousSymbols == {"Swell", "Trem Freq", "Trem Amp", "Sustain"}

\* send_controller_value has returned or raised for a continuous or sustain
\* control of one of the four tables
ContinuousSent ==
  /\ call.method = "send_controller_value"
  /\ zctrl.symbol \in ContinuousSymbols
  /\ \E entry \in TableCtrls :
       entry.symbol = zctrl.symbol /\ entry.midi_cc = zctrl.midi_cc
         /\ entry.graph_path = zctrl.graph_path

\* C21: for Swell, Trem Freq, Trem Amp and Sustain, send_controller_value
\* emits exactly one control change, on the control's channel, with the
\* control's own midi_cc and its raw value, and nothing on address 98.  (The
\* code compares the symbol of Sustain with "S" and goes on to the packing.)
C21_ContinuousBypass ==
  ContinuousSent
    => /\ result = "None"
       /\ midi_control = <<MidiControl(zctrl.midi_chan, zctrl.midi_cc, zctrl.value)>>
       /\ \A i \in 1..Len(midi_control) : midi_control[i].cc # stop_cc_num

\* send_controller_value has returned or raised for a stop of which the
\* group or the button is outside the 4x16 grid
OutOfGridSent ==
  /\ call.method = "send_controller_value"
  /\ zctrl.symbol \notin BypassSymbols
  /\ zctrl.graph_path # <<>>
  /\ (zctrl.graph_path[1] \notin 0..3 \/ zctrl.graph_path[2] \notin 0..15)

\* C22: for a stop whose group is outside 0..3 or whose button is outside
\* 0..15, send_controller_value raises and emits no control change.  (The
\* code formats what it is given: a group of 8 is sent as 168 or 200 and a
\* button of 16 as 16, and a negative button raises after the first message.)
C22_OutOfRangeFailsFast ==
  OutOfGridSent => (result \in Exceptions /\ midi_control = <<>>)

\* The index of a division in aeolus' native order of keyboards
KeyboardIndex(division) ==
  CASE division = "Manual III" -> 0
    [] division = "Manual II" -> 1
    [] division = "Manual I" -> 2
    [] division = "Pedals" -> 3

\* The divisions under the swell pedal
SwellDivisions == {"Manual II", "Manual III"}

\* The value that stands for a division in the MIDI configuration:
\* 0x5000 | k, and 0x2000 + (k << 4) more for a swell division
PackedDivision(division) ==
  20480 + KeyboardIndex(division)
    + (IF division \in SwellDivisions THEN 8192 + 16 * KeyboardIndex(division) ELSE 0)

\* C23: a call sends at most one /store_midi_config; its arguments are the
\* slot 0 and 16 values, one per channel 0..15: 0 for a channel no division
\* listens on, else the packed value of the division on that channel; and
\* the value of every division of the processors is on exactly one channel.
C23_MidiConfigPacking ==
  /\ Cardinality(At(trace, "/store_midi_config")) <= 1
  /\ \A j \in At(trace, "/store_midi_config") :
       LET args == trace[j].cfg
       IN /\ Len(args) = 1 + 16
          /\ args[1] = 0
          /\ \A chan \in 0..15 :
               LET on == {i \in 1..Len(processors) : processors[i].midi_chan = chan}
               IN IF on = {} THEN args[chan + 2] = 0
                  ELSE \E i \in on : args[chan + 2] = PackedDivision(processors[i].division)
          /\ \A i \in 1..Len(processors) :
               Cardinality({chan \in 0..15 :
                              args[chan + 2] = PackedDivision(processors[i].division)}) = 1

\* C23: a start with all four divisions has sent the configuration, with
\* Manual II (a swell division, keyboard 1) as 0x7011 and Pedals as 0x5003
C23_Witness ==
  /\ StartCompleted /\ Len(processors) = 4
  /\ \E j \in At(trace, "/store_midi_config") :
       /\ trace[j].cfg[processors[2].midi_chan + 2] = 28689
       /\ trace[j].cfg[processors[4].midi_chan + 2] = 20483
       /\ \E chan \in 0..15 : trace[j].cfg[chan + 2] = 0

\* The step is a call of set_preset
SetPresetStep == preset_ops' = preset_ops + 1 /\ call'.method = "set_preset"

\* The step is a call of set_preset for a preset that is in the store
SetPresetApplied ==
  SetPresetStep /\ preset_exists(presets, preset_args'.name)

\* The processor of division d is in the scope of the call that is made:
\* every processor for a "General" preset, else the processor given
InScope(d) ==
  \E l \in 1..Len(processors) :
    /\ processors[l].division = d
    /\ (preset_args'.preset_info[2] = "General" \/ l = preset_args'.processor)

\* C24: set_preset for a preset of the store returns without an exception;
\* a control of a processor in scope whose division and symbol are keys of
\* the preset takes the stored value, and every other control keeps its value.
C24_ApplySkipsUnknown ==
  [][SetPresetApplied
       => /\ result' \notin Exceptions
          /\ \A d \in DOMAIN controllers :
               \A s \in DOMAIN controllers[d] :
                 LET preset == presets_get(presets, preset_args'.name)
                 IN controllers'[d][s] =
                      IF InScope(d) /\ d \in DOMAIN preset /\ s \in DOMAIN preset[d]
                      THEN preset[d][s]
                      ELSE controllers[d][s]]_vars

\* C24: the preset Bar, which holds Principal 8 of Manual I and neither its
\* Sustain nor Manual II, was applied to all divisions after Sustain and
\* Rohrfloete 8 had been switched on: both are still on
C24_Witness ==
  /\ call.method = "set_preset" /\ result = "True"
  /\ preset_args.name = "Bar" /\ preset_args.preset_info[2] = "General"
  /\ presets_get(presets, "Bar") = BarState
  /\ controllers["Manual I"]["Principal 8"] = 127
  /\ controllers["Manual I"]["Sustain"] = 127
  /\ controllers["Manual II"]["Rohrfloete 8"] = 127

\* The committed selection of a processor
Committed(sel) ==
  <<sel.preset_name, sel.preset_info, sel.preset_index, sel.preset_bank_index>>

\* C25: a set_preset with preload=True leaves the committed selection
\* (preset_name, preset_info, preset_index, preset_bank_index) of every
\* processor as it was while it pushes the values of the preset to the
\* controls in scope; with preload=False the processors in scope have the
\* applied preset as their committed selection and the others keep theirs.
C25_PreviewDoesNotCommit ==
  [][/\ (SetPresetStep /\ preset_args'.preload)
          => \A d \in DOMAIN selection :
               Committed(selection'[d]) = Committed(selection[d])
     /\ (SetPresetApplied /\ preset_args'.preload)
          => \A d \in DOMAIN controllers :
               LET preset == presets_get(presets, preset_args'.name)
               IN (InScope(d) /\ d \in DOMAIN preset)
                    => \A s \in DOMAIN controllers[d] \cap DOMAIN preset[d] :
                         controllers'[d][s] = preset[d][s]
     /\ (SetPresetApplied /\ ~preset_args'.preload)
          => \A d \in DOMAIN selection :
               Committed(selection'[d]) =
                 IF InScope(d)
                 THEN <<preset_args'.name, preset_args'.preset_info,
                        preset_args'.preset_info[4], selection[d].bank_index>>
                 ELSE Committed(selection[d])]_vars

\* C25: Foo was previewed on Manual I while Bar is its committed preset:
\* the stops of Foo are drawn and the committed selection is still Bar
C25_Witness ==
  /\ call.method = "set_preset" /\ result = "True"
  /\ preset_args.preload /\ preset_args.name = "Foo"
  /\ presets_get(presets, "Foo") = FooState
  /\ controllers["Manual I"]["Sustain"] = 127
  /\ selection["Manual I"].preset_name = "Bar"
  /\ selection["Manual I"].preset_info = <<"Bar", "General", "Bar", 1>>
  /\ selection["Manual I"].preset_index = 1

\* The last call was a save_preset, rename_preset or delete_preset that
\* returned
MutationDone ==
  /\ pc = "idle"
  /\ call.method \in {"save_preset", "rename_preset", "delete_preset"}
  /\ result \notin Exceptions

\* The store a reload from disk gives
Reloaded == load_presets(user_presets_file, default_presets_file)

\* The values of the live controls, per division with a processor
LiveState ==
  [d \in {processors[l].division : l \in 1..Len(processors)} |-> controllers[d]]

RenameStep == preset_ops' = preset_ops + 1 /\ call'.method = "rename_preset"

\* The step is a call of delete_preset
DeleteStep == preset_ops' = preset_ops + 1 /\ call'.method = "delete_preset"

\* C27: rename_preset(old, new) for a preset old of the store: afterwards
\* new has the state old had, old is gone unless it is new, every other
\* preset is there with its state and no further preset is, and the store was
\* written as a whole; rename_preset and delete_preset for a name that is
\* not in the store change nothing, write nothing and raise nothing.
C27_RenameDelete ==
  [][/\ (RenameStep /\ preset_exists(presets, preset_args'.name))
          => LET old == preset_args'.name
                 new == preset_args'.new_name
             IN /\ result' \notin Exceptions
                /\ preset_exists(presets', new)
                /\ presets_get(presets', new) = presets_get(presets, old)
                /\ old # new => ~preset_exists(presets', old)
                /\ \A i \in 1..Len(presets) :
                     presets[i].name \notin {old, new}
                       => /\ preset_exists(presets', presets[i].name)
                          /\ presets_get(presets', presets[i].name) = presets[i].state
                /\ \A i \in 1..Len(presets') :
                     presets'[i].name = new \/ preset_exists(presets, presets'[i].name)
                /\ written' /\ user_presets_file' = json_dump(presets')
     /\ ((RenameStep \/ DeleteStep) /\ ~preset_exists(presets, preset_args'.name))
          => /\ result' \notin Exceptions
             /\ presets' = presets
             /\ user_presets_file' = user_presets_file
             /\ ~written']_vars

\* C27: Foo was renamed to Baz in the store of the user that held Foo and
\* Bar: Bar is as it was, Baz has the state of Foo and comes last, Foo is gone
C27_Witness ==
  /\ call.method = "rename_preset" /\ result = "None"
  /\ preset_args.name = "Foo" /\ preset_args.new_name = "Baz"
  /\ presets = <<Preset("Bar", BarState), Preset("Baz", FooState)>>
  /\ written /\ user_presets_file = json_dump(presets)
  /\ preset_ops = 1

\* The /tuning lines of the definition file, in the order of the file
TuningLines == SelectSeq(definition, LAMBDA line : line.key = "/tuning")

\* The value of a field: None when it does not parse
FieldValue(parsed) == IF parsed = Undef THEN None ELSE parsed

\* The preset file that load_presets reads
ChosenPresetFile ==
  IF user_presets_file.kind # "none" THEN user_presets_file ELSE default_presets_file

\* C28: reading the definition file and the preset file raises nothing; with
\* one /tuning line, a field that does not parse gives None for that
\* attribute and the other attribute has its parsed value; when no /tuning
\* line has a frequency (a temperament) that parses the attribute is None;
\* and a preset file that cannot be read or decoded gives an empty store.
C28_MalformedFilesFallBack ==
  /\ result \notin Exceptions
  /\ Len(TuningLines) = 1
       => /\ current_tuning_freq = FieldValue(ParseFloat(TuningLines[1].freq))
          /\ current_temperament = FieldValue(ParseInt(TuningLines[1].temp))
  /\ (TuningLines # <<>>
        /\ \A i \in 1..Len(TuningLines) : ParseFloat(TuningLines[i].freq) = Undef)
       => current_tuning_freq = None
  /\ (TuningLines # <<>>
        /\ \A i \in 1..Len(TuningLines) : ParseInt(TuningLines[i].temp) = Undef)
       => current_temperament = None
  /\ ChosenPresetFile.kind # "json" => presets = <<>>
  /\ ChosenPresetFile.kind = "json" => presets = ChosenPresetFile.data

\* C28: the files were read again, from a definition file of which the one
\* /tuning line has no temperament that parses and a user preset file that
\* cannot be decoded: frequency 438, temperament None, no presets
C28_Witness ==
  /\ call.method = "load_presets" /\ api_calls = 1 /\ result = "None"
  /\ Len(TuningLines) = 1 /\ TuningLines[1].freq = "438.0" /\ TuningLines[1].temp = ""
  /\ current_tuning_freq = 438 /\ current_temperament = None
  /\ user_presets_file = Garbled /\ default_presets_file = json_dump(DefaultPresets)
  /\ presets = <<>>

\* C29: when the definition file has several /tuning lines, the tuning on
\* record after get_current_config is that of the first of them.  (The
\* loop has no break: every /tuning line assigns, and the last one stays.)
C29_FirstTuningLineHonored ==
  Len(TuningLines) >= 2
    => /\ current_tuning_freq = FieldValue(ParseFloat(TuningLines[1].freq))
       /\ current_temperament = FieldValue(ParseInt(TuningLines[1].temp))

\* The stops of the four tables, as <<division, position in the table>>:
\* the entries that have a graph path
TableStops ==
  {x \in (1..Len(instrument)) \X (1..20) :
     /\ x[2] <= Len(ctrls(instrument[x[1]]))
     /\ ctrls(instrument[x[1]])[x[2]].graph_path # <<>>}

\* The graph path of a stop of the tables
GraphPath(x) == ctrls(instrument[x[1]])[x[2]].graph_path

\* The control last sent is a stop of the tables
TableStopSent ==
  /\ call.method = "send_controller_value"
  /\ \E x \in TableStops :
       /\ ctrls(instrument[x[1]])[x[2]].symbol = zctrl.symbol
       /\ ctrls(instrument[x[1]])[x[2]].midi_cc = zctrl.midi_cc
       /\ GraphPath(x) = zctrl.graph_path

\* C30: over the tables of the four divisions together, the graph path of
\* every stop is a pair with the group in 0..3 and the button in 0..15, and
\* no two stops have the same pair: a stop of the tables that is sent is the
\* only one at its place of the grid.
C30_GridPairsUnique ==
  /\ \A d \in 1..Len(instrument) : Len(ctrls(instrument[d])) <= 20
  /\ \A x \in TableStops :
       /\ Len(GraphPath(x)) = 2
       /\ GraphPath(x)[1] \in 0..3
       /\ GraphPath(x)[2] \in 0..15
  /\ \A x, y \in TableStops : x # y => GraphPath(x) # GraphPath(y)
  /\ TableStopSent
       => Cardinality({x \in TableStops : GraphPath(x) = zctrl.graph_path}) = 1

\* C30: the last stop of the Pedals, P+III at (3, 15), was drawn and sent,
\* and the tables hold 57 stops
C30_Witness ==
  /\ StopSent /\ TableStopSent
  /\ zctrl.symbol = "P+III" /\ zctrl.graph_path = <<3, 15>>
  /\ zctrl.value = 127
  /\ \E x \in TableStops : GraphPath(x) = zctrl.graph_path
  /\ Cardinality(TableStops) = 57

\* The events of a call from the start's reading of the definition file on,
\* the two endings of a wait taken as one
StartEvents(tr) ==
  LET d == CHOOSE i \in At(tr, "definition") : TRUE
  IN  [i \in 1..(Len(tr) - d) |->
         IF IsWait(tr[d + i]) THEN "wait" ELSE tr[d + i].ev]

IsPrefix(s, t) == Len(s) <= Len(t) /\ \A i \in 1..Len(s) : s[i] = t[i]

\* What a start does after reading the file, with and without the handshake
StartWithHandshake ==
  <<"spawn", "wait", "/retune", "wait", "/save", "/store_midi_config">>

StartWithoutHandshake == <<"spawn", "wait", "/store_midi_config">>

\* The step issues a request the engine acknowledges with /ready
RequestStep ==
  \E ev \in {"spawn", "/retune"} :
    Cardinality(At(trace', ev)) > Cardinality(At(trace, ev))

RetuneWaitEndedByReady ==
  /\ WaitStep /\ pc' # "wait"
  /\ stack # <<>> /\ Head(stack) = "set_tuning_save"
  /\ trace'[Len(trace')].ev = "wait:ready"

\* C32: when the wait inside set_tuning ends on ready, the engine has
\* answered the /retune of that call: no /retune is left among the requests
\* it has yet to acknowledge.  (The listener sets ready on every /ready, so
\* the /ready of a launch whose wait timed out ends the wait of /retune.)
C32_ReadyAnswersRetune ==
  [][RetuneWaitEndedByReady =>
       \A i \in 1..Len(pending) : pending[i].req # "/retune"]_vars

\* C33: every stop() returns with no process handle held, whatever raised
\* in it, so that the set_bank that follows a stop, and the set_bank that
\* called stop for a pending restart, goes on to start.  (proc = None is
\* inside the try block: when the send of /exit, isalive or terminate
\* raises, the handle stays and set_bank selects the bank on the old one.)
C33_StopDropsHandle ==
  [][/\ StopStep => proc' = None
     /\ (pc = "idle" /\ call.method = "stop" /\ SetBankCalled
           /\ keyboard_config # None)
          => pc' = "start"
     /\ (pc = "set_bank_tail" /\ ForegroundStep) => pc' = "start"]_vars

\* The preload selection of a processor
Preloaded(sel) == <<sel.preload_name, sel.preload_info, sel.preload_index>>

\* C34: after a set_preset with preload=True the preload selection
\* (preload_name, preload_info, preload_index) of every processor in scope
\* is the previewed preset.  (The code copies the committed selection into
\* the preload fields on every call, so after a preview they name the
\* committed preset.)
C34_PreviewSetsPreload ==
  [][(SetPresetApplied /\ preset_args'.preload)
       => \A d \in DOMAIN selection :
            InScope(d) =>
              Preloaded(selection'[d]) =
                <<preset_args'.name, preset_args'.preset_info,
                  preset_args'.preset_info[4]>>]_vars

====
